---- MODULE Spec2Model ----
(***************************************************************************)
(* Model of the mealbot logging core: app/services/services.py and         *)
(* app/api/routes.py.                                                      *)
(*                                                                         *)
(* Text values on which the code computes (food names, units, aliases) are *)
(* sequences of one-character strings, so that lower(), strip(), split(),  *)
(* substring tests, ILIKE and SequenceMatcher are computed, not assumed.   *)
(* Python floats are modelled as exact non-negative rationals <<n, d>> in  *)
(* lowest terms.  Times are minutes on one clock; date(t) is t \div 1440.  *)
(***************************************************************************)
EXTENDS Integers, Sequences, FiniteSets, TLC

VARIABLES users, user_id_seq, meal_plans, catalog, ledger, summaries, now,
          last, probe, threads,
          user_state, user_data, inflight, api_requests

\* the chat bot's variables: its two module-level dicts, its handlers
\* suspended on a request to the API, and the requests it has sent
bot == <<user_state, user_data, inflight, api_requests>>

vars == <<users, user_id_seq, meal_plans, catalog, ledger, summaries, now,
          last, probe, threads, bot>>

-----------------------------------------------------------------------------
(* Bounds of the model *)

MaxLedger == 2
MaxTicks == 6
MaxUsers == 1
MaxPlans == 1

-----------------------------------------------------------------------------
(* Text *)

UpperChars == <<"A","B","C","D","E","F","G","H","I","J","K","L","M",
                "N","O","P","Q","R","S","T","U","V","W","X","Y","Z">>
LowerChars == <<"a","b","c","d","e","f","g","h","i","j","k","l","m",
                "n","o","p","q","r","s","t","u","v","w","x","y","z">>

LowerChar(c) ==
  IF \E i \in 1..26 : UpperChars[i] = c
  THEN LowerChars[CHOOSE i \in 1..26 : UpperChars[i] = c]
  ELSE c

\* str.lower()
lower(s) == [i \in 1..Len(s) |-> LowerChar(s[i])]

\* str.strip(): leading and trailing blanks removed
RECURSIVE lstrip(_)
lstrip(s) == IF s # <<>> /\ Head(s) = " " THEN lstrip(Tail(s)) ELSE s

RECURSIVE rstrip(_)
rstrip(s) ==
  IF s # <<>> /\ s[Len(s)] = " " THEN rstrip(SubSeq(s, 1, Len(s) - 1)) ELSE s

strip(s) == rstrip(lstrip(s))

\* the Python test "sub in s" on strings
Contains(sub, s) ==
  \E i \in 0..(Len(s) - Len(sub)) : SubSeq(s, i + 1, i + Len(sub)) = sub

\* str.split(';'): the sequence of ';'-delimited tokens
RECURSIVE split(_)
split(s) ==
  IF \E i \in 1..Len(s) : s[i] = ";"
  THEN LET i == CHOOSE k \in 1..Len(s) :
                  s[k] = ";" /\ \A m \in 1..(k - 1) : s[m] # ";"
       IN <<SubSeq(s, 1, i - 1)>> \o split(SubSeq(s, i + 1, Len(s)))
  ELSE <<s>>

\* SQL "text ILIKE pat": case-insensitive LIKE; "_" matches one character,
\* "%" matches any run of characters
RECURSIVE like(_, _)
like(pat, text) ==
  IF pat = <<>> THEN text = <<>>
  ELSE IF Head(pat) = "%"
       THEN \E k \in 0..Len(text) :
              like(Tail(pat), SubSeq(text, k + 1, Len(text)))
       ELSE /\ text # <<>>
            /\ Head(pat) = "_" \/ Head(pat) = Head(text)
            /\ like(Tail(pat), Tail(text))

ilike(text, pat) == like(lower(pat), lower(text))

-----------------------------------------------------------------------------
(* Exact arithmetic standing for Python floats *)

Min(a, b) == IF a < b THEN a ELSE b

RECURSIVE GCD(_, _)
GCD(a, b) == IF b = 0 THEN a ELSE GCD(b, a % b)

\* the rational n/d (n >= 0, d > 0) in lowest terms
Rat(n, d) == LET g == GCD(n, d) IN <<n \div g, d \div g>>

RMul(x, y) == Rat(x[1] * y[1], x[2] * y[2])
RDiv(x, y) == Rat(x[1] * y[2], x[2] * y[1])
RAdd(x, y) == Rat(x[1] * y[2] + y[1] * x[2], x[2] * y[2])
RInt(k) == <<k, 1>>

\* int(x) on a non-negative float: truncation
trunc(x) == x[1] \div x[2]

\* round(x) of Python 3: nearest integer, halves to the even neighbour
round(x) ==
  LET f == x[1] \div x[2]
      r2 == 2 * (x[1] % x[2])
  IN IF r2 < x[2] THEN f
     ELSE IF r2 > x[2] THEN f + 1
     ELSE IF f % 2 = 0 THEN f ELSE f + 1

-----------------------------------------------------------------------------
(* String literals of services.py *)

u_serving == <<"s","e","r","v","i","n","g">>
u_grams == <<"g","r","a","m","s">>
u_ml == <<"m","l">>
u_cup == <<"c","u","p">>
u_tbsp == <<"t","b","s","p">>
u_piece == <<"p","i","e","c","e">>
u_bowl == <<"b","o","w","l">>
k_oatmeal == <<"o","a","t","m","e","a","l">>
k_rice == <<"r","i","c","e">>
k_dal == <<"d","a","l">>
k_peanut_butter == <<"p","e","a","n","u","t","_","b","u","t","t","e","r">>
k_honey == <<"h","o","n","e","y">>
k_almonds == <<"a","l","m","o","n","d","s">>
k_samosa == <<"s","a","m","o","s","a">>
k_idli == <<"i","d","l","i">>
k_biryani == <<"b","i","r","y","a","n","i">>
k_curry == <<"c","u","r","r","y">>

-----------------------------------------------------------------------------
(* Target calculator *)

MealTypes ==
  <<"breakfast", "morning_snack", "lunch", "afternoon_snack", "dinner",
    "evening_snack">>

\* a calculator that knows no table for a goal it does not name
calculate_daily_calories_named_only(goal) ==
  IF goal = "weight_loss"
  THEN [breakfast |-> 350, morning_snack |-> 150, lunch |-> 500,
        afternoon_snack |-> 150, dinner |-> 500, evening_snack |-> 150,
        total |-> 1800]
  ELSE IF goal = "muscle_gain"
  THEN [breakfast |-> 500, morning_snack |-> 200, lunch |-> 700,
        afternoon_snack |-> 200, dinner |-> 650, evening_snack |-> 250,
        total |-> 2500]
  ELSE IF goal = "maintenance"
  THEN [breakfast |-> 400, morning_snack |-> 150, lunch |-> 600,
        afternoon_snack |-> 150, dinner |-> 600, evening_snack |-> 300,
        total |-> 2200]
  ELSE [breakfast |-> 0, morning_snack |-> 0, lunch |-> 0,
        afternoon_snack |-> 0, dinner |-> 0, evening_snack |-> 0,
        total |-> 0]

calculate_daily_calories(goal) ==
  IF goal = "weight_loss"
  THEN [breakfast |-> 350, morning_snack |-> 150, lunch |-> 500,
        afternoon_snack |-> 150, dinner |-> 500, evening_snack |-> 150,
        total |-> 1800]
  ELSE IF goal = "muscle_gain"
  THEN [breakfast |-> 500, morning_snack |-> 200, lunch |-> 700,
        afternoon_snack |-> 200, dinner |-> 650, evening_snack |-> 250,
        total |-> 2500]
  ELSE [breakfast |-> 400, morning_snack |-> 150, lunch |-> 600,
        afternoon_snack |-> 150, dinner |-> 600, evening_snack |-> 300,
        total |-> 2200]

-----------------------------------------------------------------------------
(* Unit converter *)

\* the Python value None
None == <<>>

\* the dict "conversions": each value is the dict's items in insertion order
conversions ==
  << <<u_cup, u_grams,
       << <<k_oatmeal, RInt(50)>>, <<k_rice, RInt(200)>>,
          <<k_dal, RInt(200)>> >> >>,
     <<u_tbsp, u_grams,
       << <<k_peanut_butter, RInt(16)>>, <<k_honey, RInt(20)>> >> >>,
     <<u_piece, u_grams,
       << <<k_almonds, Rat(12, 10)>>, <<k_samosa, RInt(100)>>,
          <<k_idli, RInt(60)>> >> >>,
     <<u_bowl, u_grams,
       << <<k_biryani, RInt(400)>>, <<k_curry, RInt(200)>>,
          <<k_dal, RInt(200)>> >> >> >>

\* a lookup that keeps the last key contained in food_lower
table_lookup_last(items, food_lower) ==
  IF \E i \in 1..Len(items) : Contains(items[i][1], food_lower)
  THEN LET i == CHOOSE k \in 1..Len(items) :
                  /\ Contains(items[k][1], food_lower)
                  /\ \A m \in (k + 1)..Len(items) :
                       ~Contains(items[m][1], food_lower)
       IN items[i][2]
  ELSE None

\* the loop over conversions[key].items(): the factor of the first key
\* contained in food_lower, None when the loop ends without a hit
table_lookup(items, food_lower) ==
  IF \E i \in 1..Len(items) : Contains(items[i][1], food_lower)
  THEN LET i == CHOOSE k \in 1..Len(items) :
                  /\ Contains(items[k][1], food_lower)
                  /\ \A m \in 1..(k - 1) : ~Contains(items[m][1], food_lower)
       IN items[i][2]
  ELSE None

\* a converter that tests unit equality before the "serving" token
convert_equal_units_first(quantity, user_unit, food_serving_size, food_serving_unit, food_name) ==
  IF user_unit = food_serving_unit
  THEN RDiv(quantity, RInt(food_serving_size))
  ELSE IF user_unit = u_serving THEN quantity
  ELSE IF \E e \in 1..Len(conversions) :
            conversions[e][1] = user_unit
            /\ conversions[e][2] = food_serving_unit
  THEN LET e == CHOOSE k \in 1..Len(conversions) :
                  conversions[k][1] = user_unit
                  /\ conversions[k][2] = food_serving_unit
           factor == table_lookup(conversions[e][3], lower(food_name))
       IN IF factor = None THEN None
          ELSE RDiv(RMul(quantity, factor), RInt(food_serving_size))
  ELSE None

convert_to_serving_multiplier(quantity, user_unit, food_serving_size, food_serving_unit, food_name) ==
  IF user_unit = u_serving THEN quantity
  ELSE IF user_unit = u_grams /\ food_serving_unit = u_grams
  THEN RDiv(quantity, RInt(food_serving_size))
  ELSE IF user_unit = u_ml /\ food_serving_unit = u_ml
  THEN RDiv(quantity, RInt(food_serving_size))
  ELSE IF user_unit = food_serving_unit
  THEN RDiv(quantity, RInt(food_serving_size))
  ELSE IF \E e \in 1..Len(conversions) :
            conversions[e][1] = user_unit
            /\ conversions[e][2] = food_serving_unit
  THEN LET e == CHOOSE k \in 1..Len(conversions) :
                  conversions[k][1] = user_unit
                  /\ conversions[k][2] = food_serving_unit
           factor == table_lookup(conversions[e][3], lower(food_name))
       IN IF factor = None THEN None
          ELSE RDiv(RMul(quantity, factor), RInt(food_serving_size))
  ELSE None

\* a call that passes the food's serving unit as stored
serving_multiplier_unit_as_stored(quantity, unit, food) ==
  convert_to_serving_multiplier(quantity, lower(unit), food.serving_size,
                                food.serving_unit, food.food_name)

\* a call that falls back on the quantity when no rule applies
serving_multiplier_fallback(quantity, unit, food) ==
  LET m == convert_to_serving_multiplier(quantity, lower(unit),
                                         food.serving_size,
                                         lower(food.serving_unit),
                                         food.food_name)
  IN IF m = None THEN quantity ELSE m

\* the call made by log_meal: both units lower-cased before the conversion
serving_multiplier(quantity, unit, food) ==
  convert_to_serving_multiplier(quantity, lower(unit), food.serving_size,
                                lower(food.serving_unit), food.food_name)

-----------------------------------------------------------------------------
(* Food resolver *)

RLess(x, y) == x[1] * y[2] < y[1] * x[2]

SetMax(S) == CHOOSE m \in S : \A k \in S : k <= m
SetMin(S) == CHOOSE m \in S : \A k \in S : m <= k

\* length of the common run of a from i and b from j that stays inside
\* a[..ahi] and b[..bhi] (positions are 1-based, ranges inclusive)
RECURSIVE run_length(_, _, _, _, _, _)
run_length(a, b, i, ahi, j, bhi) ==
  IF i > ahi \/ j > bhi THEN 0
  ELSE IF a[i] # b[j] THEN 0
  ELSE 1 + run_length(a, b, i + 1, ahi, j + 1, bhi)

\* the inner loop of SequenceMatcher.find_longest_match for one position i
\* of a: best = <<i, j, k>> is replaced only by a strictly longer run
RECURSIVE scan_row(_, _, _, _, _, _, _)
scan_row(a, b, ahi, bhi, i, j, best) ==
  IF j > bhi THEN best
  ELSE LET k == run_length(a, b, i, ahi, j, bhi)
       IN IF k > best[3] THEN scan_row(a, b, ahi, bhi, i, j + 1, <<i, j, k>>)
          ELSE scan_row(a, b, ahi, bhi, i, j + 1, best)

\* SequenceMatcher.find_longest_match: <<i, j, k>> with a[i..i+k-1] =
\* b[j..j+k-1], k maximal, then i minimal, then j minimal
RECURSIVE find_longest_match(_, _, _, _, _, _, _)
find_longest_match(a, b, ahi, blo, bhi, i, best) ==
  IF i > ahi THEN best
  ELSE find_longest_match(a, b, ahi, blo, bhi, i + 1,
                          scan_row(a, b, ahi, bhi, i, blo, best))

\* SequenceMatcher.get_matching_blocks: total size of the blocks found by
\* taking the longest matching block and recursing on the pieces to its
\* left and to its right
RECURSIVE matching_size(_, _, _, _, _, _)
matching_size(a, b, alo, ahi, blo, bhi) ==
  IF alo > ahi \/ blo > bhi THEN 0
  ELSE LET m == find_longest_match(a, b, ahi, blo, bhi, alo,
                                   <<alo, blo, 0>>)
       IN IF m[3] = 0 THEN 0
          ELSE m[3] + matching_size(a, b, alo, m[1] - 1, blo, m[2] - 1)
                    + matching_size(a, b, m[1] + m[3], ahi, m[2] + m[3], bhi)

\* SequenceMatcher(None, a, b).ratio() = 2.0 * matches / (len(a) + len(b))
ratio(a, b) ==
  IF Len(a) + Len(b) = 0 THEN RInt(1)
  ELSE Rat(2 * matching_size(a, b, 1, Len(a), 1, Len(b)), Len(a) + Len(b))

\* the fuzzy threshold 0.6
Threshold == Rat(6, 10)

\* a membership test on the aliases string itself: every run of characters
\* of the string counts as an alias
alias_tokens_substring(aliases) ==
  {lower(SubSeq(aliases, i, j)) : i \in 1..Len(aliases), j \in 1..Len(aliases)}

\* [a.strip().lower() for a in food.aliases.split(';')]
alias_tokens(aliases) ==
  LET toks == split(aliases)
  IN {lower(strip(toks[i])) : i \in 1..Len(toks)}

\* a loop that also replaces the best match by a row of equal ratio
RECURSIVE fuzzy_loop_last_max(_, _, _, _, _)
fuzzy_loop_last_max(all_foods, food_name_lower, i, best_match, best_ratio) ==
  IF i > Len(all_foods) THEN best_match
  ELSE LET r == ratio(food_name_lower, lower(all_foods[i].food_name))
       IN IF ~RLess(r, best_ratio) /\ RLess(Threshold, r)
          THEN fuzzy_loop_last_max(all_foods, food_name_lower, i + 1, i, r)
          ELSE fuzzy_loop_last_max(all_foods, food_name_lower, i + 1,
                                   best_match, best_ratio)

\* the third loop of fuzzy_search_food, from row i on
RECURSIVE fuzzy_loop(_, _, _, _, _)
fuzzy_loop(all_foods, food_name_lower, i, best_match, best_ratio) ==
  IF i > Len(all_foods) THEN best_match
  ELSE LET r == ratio(food_name_lower, lower(all_foods[i].food_name))
       IN IF RLess(best_ratio, r) /\ RLess(Threshold, r)
          THEN fuzzy_loop(all_foods, food_name_lower, i + 1, i, r)
          ELSE fuzzy_loop(all_foods, food_name_lower, i + 1, best_match,
                          best_ratio)

\* the row (1-based position in the food table) of the food found, 0 for
\* None; a query's .first() and .all() follow the table's row order
fuzzy_search_food(all_foods, food_name) ==
  LET food_name_lower == strip(lower(food_name))
      rows == 1..Len(all_foods)
      exact == {i \in rows : ilike(all_foods[i].food_name, food_name_lower)}
      byAlias == {i \in rows :
                    /\ all_foods[i].aliases # <<>>
                    /\ food_name_lower \in alias_tokens(all_foods[i].aliases)}
  IN IF exact # {} THEN SetMin(exact)
     ELSE IF byAlias # {} THEN SetMin(byAlias)
     ELSE fuzzy_loop(all_foods, food_name_lower, 1, 0, RInt(0))

-----------------------------------------------------------------------------
(* Tables: users, food_database, food_logs, daily_summaries, meal_plans *)

\* minutes in a day: func.date(logged_at) and date.today() cut the clock here
MinutesPerDay == 1440

\* the clock value of the initial state (shortly before a midnight)
StartTime == 1435

date(t) == t \div MinutesPerDay
hour(t) == (t % MinutesPerDay) \div 60

n_Biryani == <<"B","i","r","y","a","n","i">>
n_Almonds == <<"A","l","m","o","n","d","s">>
a_Biryani == <<"b","i","r","i","y","a","n","i",";"," ","C","h","i","c","k","e","n"," ","B","i","r","y","a","n","i">>
a_Almonds == <<"b","a","d","a","m">>
d_Grams == <<"G","r","a","m","s">>

Food(name, size, unit, cal, p, c, f, cat, al) ==
  [food_name |-> name, serving_size |-> size, serving_unit |-> unit,
   default_calories |-> cal, protein_g |-> p, carbs_g |-> c, fats_g |-> f,
   category |-> cat, aliases |-> al]

\* the food table after seeding: the two foods of the documented examples
\* (routes.py, docstring of log_meal)
SeedCatalog ==
  << Food(n_Biryani, 400, u_grams, 600, RInt(25), RInt(70), Rat(45, 2),
          "lunch", a_Biryani),
     Food(n_Almonds, 30, d_Grams, 165, RInt(6), Rat(13, 2), RInt(14),
          "morning_snack", a_Almonds) >>

\* sum of f over the sequence rows
RECURSIVE SumInt(_, _)
SumInt(rows, field) ==
  IF rows = <<>> THEN 0 ELSE Head(rows)[field] + SumInt(Tail(rows), field)

RECURSIVE SumRat(_, _)
SumRat(rows, field) ==
  IF rows = <<>> THEN RInt(0)
  ELSE RAdd(Head(rows)[field], SumRat(Tail(rows), field))

\* db.query(FoodLog).filter(user_id == u, func.date(logged_at) == d).all()
logs_of(logs, user_id, date_obj) ==
  SelectSeq(logs, LAMBDA l : l.user_id = user_id /\ date(l.logged_at) = date_obj)

\* db.query(User).get(user_id): the set of matching rows (empty or one row)
user_rows(us, user_id) == {u \in us : u.id = user_id}
get_user(us, user_id) == CHOOSE u \in us : u.id = user_id

-----------------------------------------------------------------------------
(* Services *)

WindowMinutes == 5

\* a guard whose window includes the cutoff itself
prevent_duplicate_log_inclusive(logs, user_id, food_name, t) ==
  LET cutoff == t - WindowMinutes
  IN \E i \in 1..Len(logs) :
       /\ logs[i].user_id = user_id
       /\ logs[i].food_name = food_name
       /\ logs[i].logged_at >= cutoff

prevent_duplicate_log(logs, user_id, food_name, t) ==
  LET cutoff == t - WindowMinutes
  IN \E i \in 1..Len(logs) :
       /\ logs[i].user_id = user_id
       /\ logs[i].food_name = food_name
       /\ logs[i].logged_at > cutoff

\* a validate_meal_input without the meal type check
validate_meal_input_any_meal_type(user_id, meal_type, food_name) ==
  IF user_id <= 0 THEN <<FALSE, "Invalid user ID">>
  ELSE IF Len(food_name) < 2
  THEN <<FALSE, "Food name must be at least 2 characters">>
  ELSE <<TRUE, "Valid">>

validate_meal_input(user_id, meal_type, food_name) ==
  IF user_id <= 0 THEN <<FALSE, "Invalid user ID">>
  ELSE IF ~(\E i \in 1..Len(MealTypes) : MealTypes[i] = meal_type)
  THEN <<FALSE, "Invalid meal type">>
  ELSE IF Len(food_name) < 2
  THEN <<FALSE, "Food name must be at least 2 characters">>
  ELSE <<TRUE, "Valid">>

get_remaining_calories(us, logs, user_id, date_obj) ==
  IF user_rows(us, user_id) = {} THEN 0
  ELSE calculate_daily_calories(get_user(us, user_id).goal).total
         - SumInt(logs_of(logs, user_id, date_obj), "calories")

get_consumed_today(logs, user_id, t) ==
  SumInt(logs_of(logs, user_id, date(t)), "calories")

\* an advisory message whose "great start" tier begins at 500
handle_meal_response_from_500(consumed, target) ==
  LET remaining == target - consumed
  IN IF remaining < 0
     THEN IF -remaining <= 100
          THEN [tier |-> "over_light_snack", cal |-> -remaining]
          ELSE [tier |-> "over_new_day", cal |-> -remaining]
     ELSE IF remaining >= 500 THEN [tier |-> "great_start", cal |-> remaining]
     ELSE IF remaining > 200 THEN [tier |-> "consider_snack", cal |-> remaining]
     ELSE [tier |-> "almost_there", cal |-> remaining]

handle_meal_response(consumed, target) ==
  LET remaining == target - consumed
  IN IF remaining < 0
     THEN IF -remaining <= 100
          THEN [tier |-> "over_light_snack", cal |-> -remaining]
          ELSE [tier |-> "over_new_day", cal |-> -remaining]
     ELSE IF remaining > 500 THEN [tier |-> "great_start", cal |-> remaining]
     ELSE IF remaining > 200 THEN [tier |-> "consider_snack", cal |-> remaining]
     ELSE [tier |-> "almost_there", cal |-> remaining]

\* an hour mapping whose ranges include their upper bound
get_current_meal_type_inclusive(t) ==
  LET h == hour(t)
  IN IF 6 <= h /\ h <= 10 THEN "breakfast"
     ELSE IF 10 <= h /\ h <= 12 THEN "morning_snack"
     ELSE IF 12 <= h /\ h <= 15 THEN "lunch"
     ELSE IF 15 <= h /\ h <= 17 THEN "afternoon_snack"
     ELSE IF 17 <= h /\ h <= 20 THEN "dinner"
     ELSE "evening_snack"

get_current_meal_type(t) ==
  LET h == hour(t)
  IN IF 6 <= h /\ h < 10 THEN "breakfast"
     ELSE IF 10 <= h /\ h < 12 THEN "morning_snack"
     ELSE IF 12 <= h /\ h < 15 THEN "lunch"
     ELSE IF 15 <= h /\ h < 17 THEN "afternoon_snack"
     ELSE IF 17 <= h /\ h < 20 THEN "dinner"
     ELSE "evening_snack"

\* a suggestion filter whose calorie bounds are exclusive
suggest_meals_strictly_within(all_foods, meal_type, diet_type, calorie_target) ==
  LET foods == SelectSeq(all_foods, LAMBDA f : f.category = meal_type)
      suggestions ==
        SelectSeq(foods, LAMBDA f :
                    calorie_target - 100 < f.default_calories
                    /\ f.default_calories < calorie_target + 100)
  IN SubSeq(suggestions, 1, Min(5, Len(suggestions)))

suggest_meals_for_type(all_foods, meal_type, diet_type, calorie_target) ==
  LET foods == SelectSeq(all_foods, LAMBDA f : f.category = meal_type)
      suggestions ==
        SelectSeq(foods, LAMBDA f :
                    calorie_target - 100 <= f.default_calories
                    /\ f.default_calories <= calorie_target + 100)
  IN SubSeq(suggestions, 1, Min(5, Len(suggestions)))

\* a recomputation that takes each row's calories from the food table's row
\* of that name, as it is now
calories_by_reference(l) ==
  LET found == {i \in 1..Len(catalog) : catalog[i].food_name = l.food_name}
  IN IF found = {} THEN l
     ELSE [l EXCEPT !.calories = catalog[CHOOSE i \in found : TRUE].default_calories]

create_or_update_daily_summary_by_reference(us, logs, sums, user_id, date_obj) ==
  IF user_rows(us, user_id) = {} THEN sums
  ELSE LET targets == calculate_daily_calories(get_user(us, user_id).goal)
           found == {r \in sums : r.user_id = user_id /\ r.date = date_obj}
           stored == logs_of(logs, user_id, date_obj)
           logs_ == [k \in 1..Len(stored) |-> calories_by_reference(stored[k])]
           consumed == SumInt(logs_, "calories")
           row == [id |-> Cardinality(sums) + 1,
                   user_id |-> user_id, date |-> date_obj,
                   target_calories |-> targets.total,
                   consumed_calories |-> consumed,
                   remaining_calories |-> targets.total - consumed,
                   total_protein_g |-> SumRat(logs_, "protein_g"),
                   total_carbs_g |-> SumRat(logs_, "carbs_g"),
                   total_fats_g |-> SumRat(logs_, "fats_g"),
                   meals_logged |-> Len(logs_)]
       IN IF found # {}
          THEN LET summary == CHOOSE r \in found : TRUE
               IN (sums \ {summary}) \cup
                  {[row EXCEPT !.id = summary.id,
                               !.target_calories = summary.target_calories]}
          ELSE sums \cup {row}

\* a recomputation that adds the day's fold to the stored totals
create_or_update_daily_summary_accumulate(us, logs, sums, user_id, date_obj) ==
  IF user_rows(us, user_id) = {} THEN sums
  ELSE LET targets == calculate_daily_calories(get_user(us, user_id).goal)
           found == {r \in sums : r.user_id = user_id /\ r.date = date_obj}
           logs_ == logs_of(logs, user_id, date_obj)
           consumed == SumInt(logs_, "calories")
       IN IF found # {}
          THEN LET summary == CHOOSE r \in found : TRUE
               IN (sums \ {summary}) \cup
                  {[summary EXCEPT
                      !.consumed_calories = @ + consumed,
                      !.remaining_calories = @ - consumed,
                      !.meals_logged = @ + Len(logs_)]}
          ELSE sums \cup
               {[id |-> Cardinality(sums) + 1,
                 user_id |-> user_id, date |-> date_obj,
                 target_calories |-> targets.total,
                 consumed_calories |-> consumed,
                 remaining_calories |-> targets.total - consumed,
                 total_protein_g |-> SumRat(logs_, "protein_g"),
                 total_carbs_g |-> SumRat(logs_, "carbs_g"),
                 total_fats_g |-> SumRat(logs_, "fats_g"),
                 meals_logged |-> Len(logs_)]}

\* a recomputation that leaves a stored row as it is
create_or_get_daily_summary(us, logs, sums, user_id, date_obj) ==
  IF user_rows(us, user_id) = {} THEN sums
  ELSE LET targets == calculate_daily_calories(get_user(us, user_id).goal)
           found == {r \in sums : r.user_id = user_id /\ r.date = date_obj}
           logs_ == logs_of(logs, user_id, date_obj)
           consumed == SumInt(logs_, "calories")
       IN IF found # {} THEN sums
          ELSE sums \cup
               {[id |-> Cardinality(sums) + 1,
                 user_id |-> user_id, date |-> date_obj,
                 target_calories |-> targets.total,
                 consumed_calories |-> consumed,
                 remaining_calories |-> targets.total - consumed,
                 total_protein_g |-> SumRat(logs_, "protein_g"),
                 total_carbs_g |-> SumRat(logs_, "carbs_g"),
                 total_fats_g |-> SumRat(logs_, "fats_g"),
                 meals_logged |-> Len(logs_)]}

\* a recomputation that looks the summary up by user alone and moves the
\* row it finds to the day asked for
create_or_update_daily_summary_by_user(us, logs, sums, user_id, date_obj) ==
  IF user_rows(us, user_id) = {} THEN sums
  ELSE LET targets == calculate_daily_calories(get_user(us, user_id).goal)
           found == {r \in sums : r.user_id = user_id}
           logs_ == logs_of(logs, user_id, date_obj)
           consumed == SumInt(logs_, "calories")
           totals == [date |-> date_obj,
                      consumed_calories |-> consumed,
                      remaining_calories |-> targets.total - consumed,
                      total_protein_g |-> SumRat(logs_, "protein_g"),
                      total_carbs_g |-> SumRat(logs_, "carbs_g"),
                      total_fats_g |-> SumRat(logs_, "fats_g"),
                      meals_logged |-> Len(logs_)]
       IN IF found # {}
          THEN LET summary == CHOOSE r \in found : TRUE
               IN (sums \ {summary}) \cup
                  {[c \in DOMAIN summary |->
                      IF c \in DOMAIN totals THEN totals[c] ELSE summary[c]]}
          ELSE sums \cup
               {[id |-> Cardinality(sums) + 1, user_id |-> user_id,
                 target_calories |-> targets.total] @@ totals}

\* a create_or_update_daily_summary that looks the day's row up by the date
\* alone and hands the row it finds to the user asked for
create_or_update_daily_summary_any_user(us, logs, sums, user_id, date_obj) ==
  IF user_rows(us, user_id) = {} THEN sums
  ELSE LET targets == calculate_daily_calories(get_user(us, user_id).goal)
           found == {r \in sums : r.date = date_obj}
           logs_ == logs_of(logs, user_id, date_obj)
           consumed == SumInt(logs_, "calories")
           protein == SumRat(logs_, "protein_g")
           carbs == SumRat(logs_, "carbs_g")
           fats == SumRat(logs_, "fats_g")
       IN IF found # {}
          THEN LET summary == CHOOSE r \in found : TRUE
               IN (sums \ {summary}) \cup
                  {[summary EXCEPT
                      !.user_id = user_id,
                      !.consumed_calories = consumed,
                      !.remaining_calories = targets.total - consumed,
                      !.total_protein_g = protein,
                      !.total_carbs_g = carbs,
                      !.total_fats_g = fats,
                      !.meals_logged = Len(logs_)]}
          ELSE sums \cup
               {[id |-> Cardinality(sums) + 1,
                 user_id |-> user_id, date |-> date_obj,
                 target_calories |-> targets.total,
                 consumed_calories |-> consumed,
                 remaining_calories |-> targets.total - consumed,
                 total_protein_g |-> protein,
                 total_carbs_g |-> carbs,
                 total_fats_g |-> fats,
                 meals_logged |-> Len(logs_)]}

\* the daily_summaries table after create_or_update_daily_summary; the
\* table is left alone when the user does not exist
create_or_update_daily_summary(us, logs, sums, user_id, date_obj) ==
  IF user_rows(us, user_id) = {} THEN sums
  ELSE LET targets == calculate_daily_calories(get_user(us, user_id).goal)
           found == {r \in sums : r.user_id = user_id /\ r.date = date_obj}
           logs_ == logs_of(logs, user_id, date_obj)
           consumed == SumInt(logs_, "calories")
           protein == SumRat(logs_, "protein_g")
           carbs == SumRat(logs_, "carbs_g")
           fats == SumRat(logs_, "fats_g")
       IN IF found # {}
          THEN LET summary == CHOOSE r \in found : TRUE
               IN (sums \ {summary}) \cup
                  {[summary EXCEPT
                      !.consumed_calories = consumed,
                      !.remaining_calories = targets.total - consumed,
                      !.total_protein_g = protein,
                      !.total_carbs_g = carbs,
                      !.total_fats_g = fats,
                      !.meals_logged = Len(logs_)]}
          ELSE sums \cup
               {[id |-> Cardinality(sums) + 1,
                 user_id |-> user_id, date |-> date_obj,
                 target_calories |-> targets.total,
                 consumed_calories |-> consumed,
                 remaining_calories |-> targets.total - consumed,
                 total_protein_g |-> protein,
                 total_carbs_g |-> carbs,
                 total_fats_g |-> fats,
                 meals_logged |-> Len(logs_)]}

-----------------------------------------------------------------------------
(* Routes.  Every handler leaves its request and its response in "last". *)

\* a db_add that puts the new row before the rows there are
db_add_first(rows, row) == <<row>> \o rows

\* a db_add that writes the new row over the last row of the table
db_add_over_last(rows, row) ==
  IF rows = <<>> THEN <<row>> ELSE [rows EXCEPT ![Len(rows)] = row]

\* db.add(row); db.commit() on an append-only table
db_add(rows, row) == Append(rows, row)

\* round(x, 1) of a non-negative float
round1(x) == Rat(round(RMul(x, RInt(10))), 10)

\* int(food.default_calories * serving_multiplier)
actual_calories(food, m) == trunc(RMul(RInt(food.default_calories), m))

\* food.<macro> * serving_multiplier if food.<macro> else 0
actual_macro(g, m) == IF g # RInt(0) THEN RMul(g, m) ELSE RInt(0)

Error(code, msg) == [status |-> "error", code |-> code, error |-> msg]

\* the response of log_meal and the food_logs row it adds (None when it adds
\* no row), computed on the tables us, foods, logs at clock value t
log_meal_outcome(us, foods, logs, t, user_id, meal_type, food_name, quantity, unit) ==
  LET v == validate_meal_input(user_id, meal_type, food_name)
  IN IF ~v[1] THEN [resp |-> Error(400, v[2]), row |-> None]
     ELSE IF quantity[1] <= 0
     THEN [resp |-> Error(400, "Quantity must be greater than 0"),
           row |-> None]
     ELSE IF unit = <<>>
     THEN [resp |-> Error(400, "Unit is required"), row |-> None]
     ELSE IF user_rows(us, user_id) = {}
     THEN [resp |-> Error(404, "User not found"), row |-> None]
     ELSE IF prevent_duplicate_log(logs, user_id, food_name, t)
     THEN [resp |-> [status |-> "error", code |-> 400,
                     error |-> "Already logged in last 5 mins",
                     food_name |-> food_name],
           row |-> None]
     ELSE LET found == fuzzy_search_food(foods, food_name)
          IN IF found = 0
             THEN [resp |-> [status |-> "error", code |-> 404,
                             error |-> "Food not found in database",
                             food_name |-> food_name],
                   row |-> None]
             ELSE LET food == foods[found]
                      m == serving_multiplier(quantity, unit, food)
                  IN IF m = None
                     THEN [resp |-> [status |-> "error", code |-> 400,
                                     error |-> "Unit not supported",
                                     unit |-> unit,
                                     try |-> food.serving_unit],
                           row |-> None]
                     ELSE LET user == get_user(us, user_id)
                              log == [user_id |-> user_id,
                                      meal_type |-> meal_type,
                                      food_name |-> food.food_name,
                                      calories |-> actual_calories(food, m),
                                      protein_g |-> actual_macro(food.protein_g, m),
                                      carbs_g |-> actual_macro(food.carbs_g, m),
                                      fats_g |-> actual_macro(food.fats_g, m),
                                      logged_at |-> t]
                              logs_ == db_add(logs, log)
                              remaining ==
                                get_remaining_calories(us, logs_, user_id, date(t))
                              consumed == get_consumed_today(logs_, user_id, t)
                              target == calculate_daily_calories(user.goal).total
                          IN [resp |->
                                [status |-> "success",
                                 food |-> food.food_name,
                                 actual_calories |-> log.calories,
                                 actual_protein |-> round1(log.protein_g),
                                 actual_carbs |-> round1(log.carbs_g),
                                 actual_fats |-> round1(log.fats_g),
                                 meal_type |-> meal_type,
                                 consumed_total |-> consumed,
                                 remaining |-> remaining,
                                 message |-> handle_meal_response(consumed, target)],
                              row |-> <<log>>]

\* the checks of log_meal with the duplicate guard ahead of the user lookup
log_meal_checks_guard_first(us, foods, logs, t, user_id, meal_type, food_name, quantity, unit) ==
  IF \/ ~validate_meal_input(user_id, meal_type, food_name)[1]
     \/ quantity[1] <= 0
     \/ unit = <<>>
  THEN <<"validation">>
  ELSE IF prevent_duplicate_log(logs, user_id, food_name, t)
  THEN <<"validation", "duplicate">>
  ELSE IF user_rows(us, user_id) = {}
  THEN <<"validation", "duplicate", "user">>
  ELSE IF fuzzy_search_food(foods, food_name) = 0
  THEN <<"validation", "duplicate", "user", "food">>
  ELSE <<"validation", "duplicate", "user", "food", "unit">>

\* the checks log_meal runs, in the order it runs them, up to the first one
\* that returns an error: validation (routes.py 160-171), user lookup
\* (173-177), duplicate guard (181-186), food search (189-195), unit
\* conversion (200-213)
log_meal_checks(us, foods, logs, t, user_id, meal_type, food_name, quantity, unit) ==
  IF \/ ~validate_meal_input(user_id, meal_type, food_name)[1]
     \/ quantity[1] <= 0
     \/ unit = <<>>
  THEN <<"validation">>
  ELSE IF user_rows(us, user_id) = {}
  THEN <<"validation", "user">>
  ELSE IF prevent_duplicate_log(logs, user_id, food_name, t)
  THEN <<"validation", "user", "duplicate">>
  ELSE IF fuzzy_search_food(foods, food_name) = 0
  THEN <<"validation", "user", "duplicate", "food">>
  ELSE <<"validation", "user", "duplicate", "food", "unit">>

\* a log_meal that recomputes the day's summary before it runs its checks
log_meal_summary_first(user_id, meal_type, food_name, quantity, unit) ==
  /\ \E out \in {log_meal_outcome(users, catalog, ledger, now, user_id, meal_type, food_name, quantity, unit)} :
       /\ out.row # None => Len(ledger) < MaxLedger
       /\ ledger' = IF out.row = None THEN ledger ELSE db_add(ledger, out.row[1])
       /\ last' = [op |-> "log_meal",
                   args |-> [user_id |-> user_id, meal_type |-> meal_type,
                             food_name |-> food_name, quantity |-> quantity,
                             unit |-> unit],
                   resp |-> out.resp]
  /\ summaries' = create_or_update_daily_summary(users, ledger, summaries,
                                                  user_id, date(now))
  /\ UNCHANGED <<users, user_id_seq, meal_plans, catalog, now, probe, threads, bot>>

log_meal(user_id, meal_type, food_name, quantity, unit) ==
  /\ \E out \in {log_meal_outcome(users, catalog, ledger, now, user_id, meal_type, food_name, quantity, unit)} :
       /\ out.row # None => Len(ledger) < MaxLedger
       /\ ledger' = IF out.row = None THEN ledger ELSE db_add(ledger, out.row[1])
       /\ last' = [op |-> "log_meal",
                   args |-> [user_id |-> user_id, meal_type |-> meal_type,
                             food_name |-> food_name, quantity |-> quantity,
                             unit |-> unit],
                   resp |-> out.resp]
  /\ UNCHANGED <<users, user_id_seq, meal_plans, catalog, summaries, now,
                 probe, threads, bot>>


\* the value stored for an absent (None) goal, diet type or phone number
Absent == "None"

register_user(id, goal, diet_type) ==
  /\ users' = IF user_rows(users, id) # {} THEN users
              ELSE users \cup
                   {[id |-> id,
                     diet_type |-> IF diet_type = Absent THEN "non-veg"
                                   ELSE diet_type,
                     goal |-> IF goal = Absent THEN "maintenance" ELSE goal,
                     phone_number |-> Absent]}
  /\ last' = [op |-> "register_user", args |-> [id |-> id, goal |-> goal, diet_type |-> diet_type],
              resp |-> [status |-> "success",
                        message |-> IF user_rows(users, id) # {}
                                    THEN "User already exists"
                                    ELSE "User registered successfully",
                        user_id |-> id]]
  /\ UNCHANGED <<user_id_seq, meal_plans, catalog, ledger, summaries, now,
                 probe, threads, bot>>

\* create_or_get_user followed by save_meal_plan.  A new user takes its id
\* from the users id sequence; an id already taken fails the insert, the
\* request ends with a server error and the sequence value stays consumed.
create_meal_plan(goal, diet_type, phone_number) ==
  LET existing == IF phone_number = Absent THEN {}
                  ELSE {u \in users : u.phone_number = phone_number}
      new_user == [id |-> user_id_seq, diet_type |-> diet_type,
                   goal |-> goal, phone_number |-> phone_number]
      db_user == IF existing # {} THEN CHOOSE u \in existing : TRUE
                 ELSE new_user
      conflict == existing = {} /\ user_rows(users, user_id_seq) # {}
  IN /\ user_id_seq' = IF existing = {} THEN user_id_seq + 1 ELSE user_id_seq
     /\ users' = IF existing = {} /\ ~conflict THEN users \cup {new_user}
                 ELSE users
     /\ meal_plans' =
          IF conflict THEN meal_plans
          ELSE db_add(meal_plans,
                      [user_id |-> db_user.id,
                       total_calories |-> calculate_daily_calories(goal).total])
     /\ last' = [op |-> "create_meal_plan", args |-> [goal |-> goal, diet_type |-> diet_type,
                           phone_number |-> phone_number],
                 resp |-> IF conflict
                          THEN Error(500, "Internal Server Error")
                          ELSE [status |-> "success", user_id |-> db_user.id,
                                total_calories |->
                                  calculate_daily_calories(goal).total]]
     /\ UNCHANGED <<catalog, ledger, summaries, now, probe, threads, bot>>

\* the per-slot breakdown built by get_daily_status from the day's rows
by_meal_type(logs, targets) ==
  [mt \in {MealTypes[i] : i \in 1..Len(MealTypes)} |->
     LET meals == SelectSeq(logs, LAMBDA l : l.meal_type = mt)
         consumed == SumInt(meals, "calories")
     IN [target |-> targets[mt], consumed |-> consumed,
         remaining |-> targets[mt] - consumed,
         items |-> [k \in 1..Len(meals) |-> meals[k].food_name]]]

\* the omitted date parameter (None): the handler takes today
NoDate == -1

get_daily_status(user_id, date_param) ==
  LET date_obj == IF date_param = NoDate THEN date(now) ELSE date_param
      sums == create_or_update_daily_summary(users, ledger, summaries,
                                             user_id, date_obj)
  IN /\ summaries' = sums
     /\ last' =
          [op |-> "get_daily_status", args |-> [user_id |-> user_id, date_obj |-> date_param],
           resp |->
             IF user_rows(users, user_id) = {} THEN Error(404, "User not found")
             ELSE LET user == get_user(users, user_id)
                      summary == CHOOSE r \in sums :
                                   r.user_id = user_id /\ r.date = date_obj
                      logs == logs_of(ledger, user_id, date_obj)
                      targets == calculate_daily_calories(user.goal)
                  IN [status |-> "success", date |-> date_obj,
                      goal |-> user.goal,
                      target_calories |-> summary.target_calories,
                      consumed_calories |-> summary.consumed_calories,
                      remaining_calories |-> summary.remaining_calories,
                      meals_by_type |-> by_meal_type(logs, targets),
                      meals_logged |-> summary.meals_logged,
                      macros |-> [protein_g |-> round1(summary.total_protein_g),
                                  carbs_g |-> round1(summary.total_carbs_g),
                                  fats_g |-> round1(summary.total_fats_g)],
                      progress |->
                        round(Rat(summary.consumed_calories * 100,
                                  summary.target_calories))]]
     /\ UNCHANGED <<users, user_id_seq, meal_plans, catalog, ledger, now,
                    probe, threads, bot>>

suggest_next_meal(user_id) ==
  /\ last' =
       [op |-> "suggest_next_meal", args |-> [user_id |-> user_id],
        resp |->
          IF user_rows(users, user_id) = {} THEN Error(404, "User not found")
          ELSE LET user == get_user(users, user_id)
                   targets == calculate_daily_calories(user.goal)
                   meal_type == get_current_meal_type(now)
                   target_cal == targets[meal_type]
                   suggestions ==
                     suggest_meals_for_type(catalog, meal_type,
                                            user.diet_type, target_cal)
               IN [status |-> "success", meal_type |-> meal_type,
                   target_calories |-> target_cal,
                   suggestions |->
                     [k \in 1..Len(suggestions) |->
                        [food |-> suggestions[k].food_name,
                         calories |-> suggestions[k].default_calories]]]]
  /\ UNCHANGED <<users, user_id_seq, meal_plans, catalog, ledger, summaries,
                 now, probe, threads, bot>>

\* the wall clock advances by d minutes
Tick(d) ==
  /\ now' = now + d
  /\ UNCHANGED <<users, user_id_seq, meal_plans, catalog, ledger, summaries,
                 last, probe, threads, bot>>

-----------------------------------------------------------------------------
(* Requests of the environment *)

t_biryani == <<"b","i","r","y","a","n","i">>
t_b == <<"b">>
t_Pizza == <<"P","i","z","z","a">>
t_Bowl == <<"B","o","w","l">>

QueryUserIds == {101}
RegisterInputs == {<<101, "weight_loss">>}
DateInputs == {NoDate}
TickInputs == {6}

LogRequest(user_id, meal_type, food_name, quantity, unit) ==
  [user_id |-> user_id, meal_type |-> meal_type, food_name |-> food_name,
   quantity |-> quantity, unit |-> unit]

\* requests that pass validation
ValidRequests ==
  {LogRequest(101, "lunch", n_Biryani, RInt(1), u_serving),
   LogRequest(101, "lunch", t_biryani, RInt(1), u_serving),
   LogRequest(101, "lunch", n_Almonds, Rat(3, 2), u_serving),
   LogRequest(101, "lunch", n_Biryani, RInt(1), t_Bowl),
   LogRequest(101, "lunch", n_Biryani, RInt(1), u_cup),
   LogRequest(101, "lunch", t_Pizza, RInt(1), u_serving)}

\* requests that fail one or several of the validation checks
InvalidRequests ==
  {LogRequest(0, "lunch", n_Biryani, RInt(1), u_serving),
   LogRequest(101, "brunch", n_Biryani, RInt(1), u_serving),
   LogRequest(101, "lunch", t_b, RInt(1), u_serving),
   LogRequest(101, "lunch", n_Biryani, RInt(0), u_serving),
   LogRequest(101, "lunch", n_Biryani, RInt(1), <<>>),
   LogRequest(0, "brunch", t_b, RInt(0), <<>>)}

LogRequests == ValidRequests \cup InvalidRequests

Idle == [op |-> "none", args |-> <<>>, resp |-> <<>>]

\* the request threads of the server's pool, none of them running a request;
\* pc names the statement a running handler executes next, loc holds its
\* local variables
Threads == {1, 2}
NoThread == [op |-> "none", pc |-> "idle", args |-> <<>>, loc |-> <<>>,
             resp |-> <<>>]
NoThreads == [t \in Threads |-> NoThread]

\* the bounds of a specification on the users and meal_plans tables
users_below(us, id, cap) == user_rows(us, id) = {} => Cardinality(us) < cap
phones_below(us, phone_number, cap) ==
  (phone_number = Absent \/ \A u \in us : u.phone_number # phone_number)
    => Cardinality(us) < cap

Init ==
  /\ users = {}
  /\ user_id_seq = 1
  /\ meal_plans = <<>>
  /\ catalog = SeedCatalog
  /\ ledger = <<>>
  /\ summaries = {}
  /\ now = StartTime
  /\ last = Idle
  /\ probe = Idle
  /\ threads = NoThreads
  /\ user_state = <<>>
  /\ user_data = <<>>
  /\ inflight = <<>>
  /\ api_requests = {}

Next ==
  \/ \E r \in RegisterInputs :
       users_below(users, r[1], MaxUsers) /\ register_user(r[1], r[2], Absent)
  \/ /\ Len(meal_plans) < MaxPlans
     /\ phones_below(users, "p1", MaxUsers)
     /\ create_meal_plan("muscle_gain", "veg", "p1")
  \/ \E r \in LogRequests :
       log_meal(r.user_id, r.meal_type, r.food_name, r.quantity, r.unit)
  \/ \E user_id \in QueryUserIds, d \in DateInputs : get_daily_status(user_id, d)
  \/ \E user_id \in QueryUserIds : suggest_next_meal(user_id)
  \/ \E d \in TickInputs : now + d <= StartTime + MaxTicks /\ Tick(d)

Spec == Init /\ [][Next]_vars

-----------------------------------------------------------------------------
(* The converter and the resolver applied to drawn inputs: a behaviour     *)
(* applies one of them once and "probe" holds the arguments and the result. *)

n_IdliSamosa == <<"I","d","l","i"," ","S","a","m","o","s","a">>
n_DalBiryani == <<"D","a","l"," ","B","i","r","y","a","n","i">>
n_Milk == <<"M","i","l","k">>
d_ML == <<"M","L">>
d_plate == <<"p","l","a","t","e">>
t_Serving == <<"S","e","r","v","i","n","g">>
t_GRAMS == <<"G","R","A","M","S">>
t_Piece == <<"P","i","e","c","e">>

ProbeQuantities == {RInt(1), Rat(3, 2), RInt(23), RInt(200), Rat(1, 4)}
ProbeUserUnits ==
  {u_serving, t_Serving, u_grams, t_GRAMS, u_ml, u_bowl, t_Bowl, u_cup,
   u_piece, t_Piece, u_tbsp}
ProbeNames == {n_Biryani, n_Almonds, n_IdliSamosa, n_DalBiryani, n_Milk}
ProbeSizes == {1, 30, 400}
ProbeServingUnits ==
  {u_grams, d_Grams, u_ml, d_ML, u_piece, u_bowl, d_plate, u_serving}

\* convert_to_serving_multiplier called as written
probe_convert ==
  /\ probe = Idle
  /\ \E quantity \in ProbeQuantities, user_unit \in ProbeUserUnits,
        food_serving_size \in ProbeSizes,
        food_serving_unit \in ProbeServingUnits, food_name \in ProbeNames :
       probe' = [op |-> "convert", quantity |-> quantity,
                 user_unit |-> user_unit,
                 food_serving_size |-> food_serving_size,
                 food_serving_unit |-> food_serving_unit,
                 food_name |-> food_name,
                 result |-> convert_to_serving_multiplier(
                              quantity, user_unit, food_serving_size,
                              food_serving_unit, food_name)]
  /\ UNCHANGED <<users, user_id_seq, meal_plans, catalog, ledger, summaries,
                 now, last, threads, bot>>

\* the conversion as log_meal calls it
probe_serving_multiplier ==
  /\ probe = Idle
  /\ \E quantity \in ProbeQuantities, unit \in ProbeUserUnits,
        size \in ProbeSizes, su \in ProbeServingUnits, name \in ProbeNames :
       LET food == Food(name, size, su, 100, RInt(1), RInt(1), RInt(1),
                        "lunch", <<>>)
       IN probe' = [op |-> "serving_multiplier", quantity |-> quantity,
                    unit |-> unit, food |-> food,
                    result |-> serving_multiplier(quantity, unit, food)]
  /\ UNCHANGED <<users, user_id_seq, meal_plans, catalog, ledger, summaries,
                 now, last, threads, bot>>

n_CurdRice == <<"C","u","r","d"," ","R","i","c","e">>
a_CurdRice == <<"c","u","r","d",";"," ","r","i","c","e">>
n_Rice == <<"R","i","c","e">>
n_SoyMilk2 == <<"2","%"," ","S","o","y"," ","M","i","l","k">>
n_Milk2 == <<"2","%"," ","M","i","l","k">>

\* "Rice" is a canonical name and an alias of the row before it
AliasCatalog ==
  << Food(n_CurdRice, 200, u_grams, 250, RInt(6), RInt(40), RInt(7),
          "lunch", a_CurdRice),
     Food(n_Rice, 150, u_grams, 200, RInt(4), RInt(45), RInt(0),
          "lunch", <<>>) >>

\* canonical names that hold the character "%"
PercentCatalog ==
  << Food(n_SoyMilk2, 250, u_ml, 110, RInt(8), RInt(9), RInt(4),
          "breakfast", <<>>),
     Food(n_Milk2, 250, u_ml, 125, RInt(8), RInt(12), RInt(5),
          "breakfast", <<>>) >>

n_ChickenCurry == <<"C","h","i","c","k","e","n"," ","C","u","r","r","y">>
n_Idli == <<"I","d","l","i">>
n_Idly == <<"I","d","l","y">>

\* an alias of the second row is closer to the name of the first row; the
\* last two names are equally close to "idle"
FuzzyCatalog ==
  << Food(n_ChickenCurry, 300, u_grams, 450, RInt(30), RInt(10), RInt(20),
          "lunch", <<>>),
     Food(n_Biryani, 400, u_grams, 600, RInt(25), RInt(70), Rat(45, 2),
          "lunch", a_Biryani),
     Food(n_Idli, 2, u_piece, 120, RInt(4), RInt(24), RInt(1),
          "breakfast", <<>>),
     Food(n_Idly, 2, u_piece, 120, RInt(4), RInt(24), RInt(1),
          "breakfast", <<>>) >>

ProbeCatalogs == {SeedCatalog, AliasCatalog, PercentCatalog, FuzzyCatalog}

ProbeTexts ==
  {n_Biryani, t_biryani, <<" ","B","I","R","Y","A","N","I"," ">>, <<"b","i","r","i","y","a","n","i">>,
   <<"C","h","i","c","k","e","n"," ","B","i","r","y","a","n","i">>, <<"b","i","r","y","a","n","e","e">>, <<"b","a","d","a","m">>,
   <<"a","l","m","o","n","d">>, t_Pizza, n_Rice, k_rice, <<"R","I","C","E">>,
   <<"c","u","r","d">>, <<"c","u","r","d"," ","r","i","c","e">>, n_Milk2, <<"2","%"," ","m","i","l","k">>,
   <<"2","%"," ","s","o","y"," ","m","i","l","k">>, <<"m","i","l","k">>,
   <<"c","h","i","c","k","e","n">>, <<"b","a","d","a">>, <<"i","d","l","e">>}

probe_fuzzy_search_food ==
  /\ probe = Idle
  /\ \E food_name \in ProbeTexts :
       probe' = [op |-> "fuzzy_search_food", food_name |-> food_name,
                 row |-> fuzzy_search_food(catalog, food_name)]
  /\ UNCHANGED <<users, user_id_seq, meal_plans, catalog, ledger, summaries,
                 now, last, threads, bot>>

\* handle_meal_response on the three day targets and every consumed total
\* from 600 below the target to 200 above it
ProbeTargets == {1800, 2200, 2500}
ProbeBelow == 600
ProbeAbove == 200

probe_handle_meal_response ==
  /\ probe = Idle
  /\ \E target \in ProbeTargets :
       \E consumed \in (target - ProbeBelow)..(target + ProbeAbove) :
         probe' = [op |-> "handle_meal_response", consumed |-> consumed,
                   target |-> target,
                   result |-> handle_meal_response(consumed, target)]
  /\ UNCHANGED <<users, user_id_seq, meal_plans, catalog, ledger, summaries,
                 now, last, threads, bot>>

\* goals: the three named ones, an absent one, the "maintain" of the users
\* model's comment, an empty one
ProbeGoals == {"weight_loss", "muscle_gain", "maintenance", Absent, "maintain", ""}

probe_calculate_daily_calories ==
  /\ probe = Idle
  /\ \E goal \in ProbeGoals :
       probe' = [op |-> "calculate_daily_calories", goal |-> goal,
                 result |-> calculate_daily_calories(goal)]
  /\ UNCHANGED <<users, user_id_seq, meal_plans, catalog, ledger, summaries,
                 now, last, threads, bot>>

\* clock values: the first and the last minute of every hour of a day
ProbeClock == {h * 60 + m : h \in 0..23, m \in {0, 59}}

probe_get_current_meal_type ==
  /\ probe = Idle
  /\ \E t \in ProbeClock :
       probe' = [op |-> "get_current_meal_type", t |-> t,
                 result |-> get_current_meal_type(t)]
  /\ UNCHANGED <<users, user_id_seq, meal_plans, catalog, ledger, summaries,
                 now, last, threads, bot>>

InitPure ==
  /\ users = {}
  /\ user_id_seq = 1
  /\ meal_plans = <<>>
  /\ catalog \in ProbeCatalogs
  /\ ledger = <<>>
  /\ summaries = {}
  /\ now = StartTime
  /\ last = Idle
  /\ probe = Idle
  /\ threads = NoThreads
  /\ user_state = <<>>
  /\ user_data = <<>>
  /\ inflight = <<>>
  /\ api_requests = {}

NextPure ==
  \/ probe_convert
  \/ probe_serving_multiplier
  \/ probe_fuzzy_search_food
  \/ probe_handle_meal_response
  \/ probe_calculate_daily_calories
  \/ probe_get_current_meal_type

SpecPure == InitPure /\ [][NextPure]_vars

-----------------------------------------------------------------------------
(* The two registration paths alone: POST /register-user and the         *)
(* create_or_get_user of POST /meal-plan                                  *)

MaxProfiles == 3
MaxSavedPlans == 3

\* <<id, goal>> of a /register-user profile; 2 is an id the users id
\* sequence also reaches
ProfileInputs == {<<101, "weight_loss">>, <<2, Absent>>}
\* <<goal, phone_number>> of a /meal-plan profile
PlanInputs == {<<"muscle_gain", "p1">>, <<"maintenance", Absent>>}

NextUsers ==
  \/ \E r \in ProfileInputs :
       users_below(users, r[1], MaxProfiles) /\ register_user(r[1], r[2], Absent)
  \/ \E r \in PlanInputs :
       /\ Len(meal_plans) < MaxSavedPlans
       /\ phones_below(users, r[2], MaxProfiles)
       /\ create_meal_plan(r[1], "veg", r[2])

SpecUsers == Init /\ [][NextUsers]_vars

-----------------------------------------------------------------------------
(* A user whose goal changes.  The spec calls goal mutable; no handler of  *)
(* the repository writes it, so the change is a write to the users row.    *)

set_goal(user_id, goal) ==
  /\ user_rows(users, user_id) # {}
  /\ get_user(users, user_id).goal # goal
  /\ users' = {IF u.id = user_id THEN [u EXCEPT !.goal = goal] ELSE u : u \in users}
  /\ last' = [op |-> "set_goal", args |-> [user_id |-> user_id, goal |-> goal],
              resp |-> [status |-> "success"]]
  /\ UNCHANGED <<user_id_seq, meal_plans, catalog, ledger, summaries, now,
                 probe, threads, bot>>

GoalInputs == {"weight_loss", "muscle_gain"}
GoalRequests ==
  {LogRequest(101, "lunch", n_Biryani, RInt(1), u_serving),
   LogRequest(101, "dinner", n_Almonds, Rat(3, 2), u_serving)}

NextGoal ==
  \/ register_user(101, "weight_loss", Absent)
  \/ \E g \in GoalInputs : set_goal(101, g)
  \/ \E r \in GoalRequests :
       log_meal(r.user_id, r.meal_type, r.food_name, r.quantity, r.unit)
  \/ get_daily_status(101, NoDate)
  \/ \E d \in TickInputs : now + d <= StartTime + MaxTicks /\ Tick(d)

SpecGoal == Init /\ [][NextGoal]_vars

-----------------------------------------------------------------------------
(* Handlers in concurrent request threads.  Every database statement is   *)
(* one step and reads the rows committed so far.                          *)

Running(op, pc, args, loc) ==
  [op |-> op, pc |-> pc, args |-> args, loc |-> loc, resp |-> <<>>]
Done(th, resp) == [th EXCEPT !.pc = "done", !.loc = <<>>, !.resp = resp]

\* rows that log_meal threads past the duplicate guard are about to add
Adding == {t \in Threads : threads[t].pc = "add"}

\* log_meal up to the FoodLog object: validation, user, duplicate guard,
\* food search, conversion (routes.py 160-238)
log_meal_begin(t, r) ==
  /\ threads[t].pc = "idle"
  /\ \E out \in {log_meal_outcome(users, catalog, ledger, now, r.user_id, r.meal_type, r.food_name, r.quantity, r.unit)} :
       /\ out.row # None => Len(ledger) + Cardinality(Adding) < MaxLedger
       /\ threads' = [threads EXCEPT
                        ![t] = IF out.row = None
                               THEN Done(Running("log_meal", "add", r, <<>>), out.resp)
                               ELSE Running("log_meal", "add", r,
                                            [row |-> out.row, out |-> out.resp])]
  /\ UNCHANGED <<users, user_id_seq, meal_plans, catalog, ledger, summaries,
                 now, last, probe, bot>>

\* an insert that is refused when the guard finds a row by now
commit_log_if_new(logs, row, t) ==
  IF prevent_duplicate_log(logs, row.user_id, row.food_name, t) THEN logs
  ELSE db_add(logs, [row EXCEPT !.logged_at = t])

\* db.add(log); db.commit(): the row is stamped by the database
commit_log(logs, row, t) == db_add(logs, [row EXCEPT !.logged_at = t])

log_meal_add(t) ==
  /\ threads[t].op = "log_meal" /\ threads[t].pc = "add"
  /\ ledger' = commit_log(ledger, threads[t].loc.row[1], now)
  /\ threads' = [threads EXCEPT ![t].pc = "remaining"]
  /\ UNCHANGED <<users, user_id_seq, meal_plans, catalog, summaries, now,
                 last, probe, bot>>

\* remaining = get_remaining_calories(db, user_id, date.today())
log_meal_remaining(t) ==
  /\ threads[t].op = "log_meal" /\ threads[t].pc = "remaining"
  /\ threads' =
       [threads EXCEPT
          ![t].pc = "consumed",
          ![t].loc = [out |-> @.out,
                      remaining |->
                        get_remaining_calories(users, ledger,
                                               threads[t].args.user_id,
                                               date(now))]]
  /\ UNCHANGED <<users, user_id_seq, meal_plans, catalog, ledger, summaries,
                 now, last, probe, bot>>

\* consumed = get_consumed_today(db, user_id), target, message, response
log_meal_consumed(t) ==
  LET th == threads[t]
      consumed == get_consumed_today(ledger, th.args.user_id, now)
      target ==
        calculate_daily_calories(get_user(users, th.args.user_id).goal).total
  IN /\ th.op = "log_meal" /\ th.pc = "consumed"
     /\ threads' =
          [threads EXCEPT
             ![t] = Done(th, [th.loc.out EXCEPT
                                !.consumed_total = consumed,
                                !.remaining = th.loc.remaining,
                                !.message =
                                  handle_meal_response(consumed, target)])]
     /\ UNCHANGED <<users, user_id_seq, meal_plans, catalog, ledger, summaries,
                    now, last, probe, bot>>

\* the six columns create_or_update_daily_summary computes
fold_of(us, logs, user_id, date_obj) ==
  LET logs_ == logs_of(logs, user_id, date_obj)
      targets == calculate_daily_calories(get_user(us, user_id).goal)
      consumed == SumInt(logs_, "calories")
  IN [consumed_calories |-> consumed,
      remaining_calories |-> targets.total - consumed,
      total_protein_g |-> SumRat(logs_, "protein_g"),
      total_carbs_g |-> SumRat(logs_, "carbs_g"),
      total_fats_g |-> SumRat(logs_, "fats_g"),
      meals_logged |-> Len(logs_)]

\* get_daily_status up to the totals: user, summary row, the day's rows
\* (routes.py 284-296, services.py 330-349)
status_read(t, user_id) ==
  LET date_obj == date(now)
      args == [user_id |-> user_id, date_obj |-> NoDate]
      found == {r \in summaries : r.user_id = user_id /\ r.date = date_obj}
      th == Running("get_daily_status", "commit", args,
                    [date_obj |-> date_obj,
                     summary |-> IF found = {} THEN None
                                 ELSE <<CHOOSE r \in found : TRUE>>,
                     totals |-> fold_of(users, ledger, user_id, date_obj)])
  IN /\ threads[t].pc = "idle"
     /\ threads' =
          [threads EXCEPT
             ![t] = IF user_rows(users, user_id) = {}
                    THEN Done(Running("get_daily_status", "commit", args, <<>>),
                              Error(404, "User not found"))
                    ELSE th]
     /\ UNCHANGED <<users, user_id_seq, meal_plans, catalog, ledger, summaries,
                    now, last, probe, bot>>

\* a table without the constraint unique_user_day
unique_user_day_dropped(sums, user_id, date_obj) == TRUE

\* UniqueConstraint('user_id', 'date'): may a row of (user_id, date) go in
unique_user_day(sums, user_id, date_obj) ==
  \A r \in sums : ~(r.user_id = user_id /\ r.date = date_obj)

\* the UPDATE of a loaded row: the columns whose value was changed, on the
\* row of that id
update_summary(sums, loaded, totals) ==
  {IF r.id # loaded.id THEN r
   ELSE [c \in DOMAIN r |->
           IF c \in DOMAIN totals /\ totals[c] # loaded[c] THEN totals[c]
           ELSE r[c]] : r \in sums}

\* db.commit() of create_or_update_daily_summary; a refused insert raises,
\* and the handler answers with the error
status_commit(t) ==
  LET th == threads[t]
      u == th.args.user_id
      d == th.loc.date_obj
      row == [id |-> Cardinality(summaries) + 1, user_id |-> u, date |-> d,
              target_calories |->
                calculate_daily_calories(get_user(users, u).goal).total]
             @@ th.loc.totals
      refused == th.loc.summary = None /\ ~unique_user_day(summaries, u, d)
  IN /\ th.op = "get_daily_status" /\ th.pc = "commit"
     /\ summaries' = IF th.loc.summary # None
                      THEN update_summary(summaries, th.loc.summary[1],
                                          th.loc.totals)
                      ELSE IF refused THEN summaries
                      ELSE summaries \cup {row}
     /\ threads' =
          [threads EXCEPT
             ![t] = IF refused THEN Done(th, Error(500, "IntegrityError"))
                    ELSE [th EXCEPT !.pc = "logs",
                                    !.loc = [date_obj |-> d]]]
     /\ UNCHANGED <<users, user_id_seq, meal_plans, catalog, ledger, now,
                    last, probe, bot>>

\* logs = db.query(FoodLog)...all() of get_daily_status (routes.py 298-301)
status_logs(t) ==
  /\ threads[t].op = "get_daily_status" /\ threads[t].pc = "logs"
  /\ threads' =
       [threads EXCEPT
          ![t].pc = "response",
          ![t].loc = [date_obj |-> @.date_obj,
                      logs |-> logs_of(ledger, threads[t].args.user_id,
                                       @.date_obj)]]
  /\ UNCHANGED <<users, user_id_seq, meal_plans, catalog, ledger, summaries,
                 now, last, probe, bot>>

\* the breakdown and the response (routes.py 305-335); the summary object,
\* expired by the commit, is loaded again when its columns are read
status_response(t) ==
  LET th == threads[t]
      u == th.args.user_id
      d == th.loc.date_obj
      user == get_user(users, u)
      summary == CHOOSE r \in summaries : r.user_id = u /\ r.date = d
  IN /\ th.op = "get_daily_status" /\ th.pc = "response"
     /\ threads' =
          [threads EXCEPT
             ![t] = Done(th,
                         [status |-> "success", date |-> d,
                          target_calories |-> summary.target_calories,
                          consumed_calories |-> summary.consumed_calories,
                          remaining_calories |-> summary.remaining_calories,
                          meals_by_type |->
                            by_meal_type(th.loc.logs,
                                         calculate_daily_calories(user.goal)),
                          meals_logged |-> summary.meals_logged])]
     /\ UNCHANGED <<users, user_id_seq, meal_plans, catalog, ledger, summaries,
                    now, last, probe, bot>>

\* the response is sent and the thread takes the next request
respond(t) ==
  /\ threads[t].pc = "done"
  /\ threads' = [threads EXCEPT ![t] = NoThread]
  /\ UNCHANGED <<users, user_id_seq, meal_plans, catalog, ledger, summaries,
                 now, last, probe, bot>>

ConcRequests ==
  {LogRequest(101, "lunch", n_Biryani, RInt(1), u_serving),
   LogRequest(101, "dinner", n_Almonds, Rat(3, 2), u_serving)}

NextConc ==
  \/ register_user(101, "weight_loss", Absent)
  \/ \E t \in Threads, r \in ConcRequests : log_meal_begin(t, r)
  \/ \E t \in Threads : log_meal_add(t)
  \/ \E t \in Threads : log_meal_remaining(t)
  \/ \E t \in Threads : log_meal_consumed(t)
  \/ \E t \in Threads : status_read(t, 101)
  \/ \E t \in Threads : status_commit(t)
  \/ \E t \in Threads : status_logs(t)
  \/ \E t \in Threads : status_response(t)
  \/ \E t \in Threads : respond(t)

SpecConc == Init /\ [][NextConc]_vars

-----------------------------------------------------------------------------
(* The food table reseeded while meals are logged and read *)

\* seed_foods: a table that holds rows is cleared and loaded again when the
\* operator answers yes, and left alone otherwise; an empty table is loaded
seed_foods(rows, reseed) ==
  /\ catalog' = IF catalog # <<>> /\ ~reseed THEN catalog ELSE rows
  /\ last' = [op |-> "seed_foods", args |-> [reseed |-> reseed],
              resp |-> [status |-> IF catalog # <<>> /\ ~reseed
                                   THEN "skipped" ELSE "success"]]
  /\ UNCHANGED <<users, user_id_seq, meal_plans, ledger, summaries, now,
                 probe, threads, bot>>

\* the seed table with other per-serving values for Biryani
ReseedCatalog ==
  << Food(n_Biryani, 400, u_grams, 650, RInt(30), RInt(75), RInt(24),
          "lunch", a_Biryani),
     Food(n_Almonds, 30, d_Grams, 165, RInt(6), Rat(13, 2), RInt(14),
          "morning_snack", a_Almonds) >>

Snack(k, cal, cat) ==
  Food(<<"S", k>>, 100, u_grams, cal, RInt(1), RInt(1), RInt(1), cat, <<>>)

\* evening snacks around the weight_loss target of 150: on both bounds,
\* next to both bounds, of another slot, and six rows inside the bounds
SnackCatalog ==
  << Snack("1", 49, "evening_snack"), Snack("2", 50, "evening_snack"),
     Snack("3", 250, "evening_snack"), Snack("4", 251, "evening_snack"),
     Snack("5", 150, "lunch"), Snack("6", 100, "evening_snack"),
     Snack("7", 200, "evening_snack"), Snack("8", 150, "evening_snack"),
     Snack("9", 120, "evening_snack") >>

CatalogInputs == {SeedCatalog, ReseedCatalog, SnackCatalog}
CatalogRequests ==
  {LogRequest(101, "lunch", n_Biryani, RInt(1), u_serving),
   LogRequest(101, "lunch", n_Almonds, Rat(3, 2), u_serving)}
\* from 23:55 to 12:00 of the next day
CatalogTick == 725
MaxCatalogTicks == 725

NextCatalog ==
  \/ register_user(101, "weight_loss", Absent)
  \/ \E rows \in CatalogInputs, reseed \in BOOLEAN : seed_foods(rows, reseed)
  \/ \E r \in CatalogRequests :
       log_meal(r.user_id, r.meal_type, r.food_name, r.quantity, r.unit)
  \/ get_daily_status(101, NoDate)
  \/ suggest_next_meal(101)
  \/ now + CatalogTick <= StartTime + MaxCatalogTicks /\ Tick(CatalogTick)

SpecCatalog == Init /\ [][NextCatalog]_vars

-----------------------------------------------------------------------------
(* Two users logging around the guard's window, minute by minute           *)

MaxWindowTicks == 6

WindowRequests ==
  {LogRequest(101, "lunch", n_Biryani, RInt(1), u_serving),
   LogRequest(102, "lunch", n_Biryani, RInt(1), u_serving),
   LogRequest(101, "lunch", n_Almonds, Rat(3, 2), u_serving)}

NextWindow ==
  \/ \E id \in {101, 102} : register_user(id, "weight_loss", Absent)
  \/ \E r \in WindowRequests :
       log_meal(r.user_id, r.meal_type, r.food_name, r.quantity, r.unit)
  \/ now + 1 <= StartTime + MaxWindowTicks /\ Tick(1)

SpecWindow == Init /\ [][NextWindow]_vars

-----------------------------------------------------------------------------
(* Two users logging and reading their status on two days                  *)

IsolationRequests ==
  {LogRequest(101, "lunch", n_Biryani, RInt(1), u_serving),
   LogRequest(102, "dinner", n_Almonds, Rat(3, 2), u_serving)}

NextIsolation ==
  \/ register_user(101, "weight_loss", Absent)
  \/ register_user(102, "muscle_gain", Absent)
  \/ \E r \in IsolationRequests :
       log_meal(r.user_id, r.meal_type, r.food_name, r.quantity, r.unit)
  \/ \E d \in {NoDate, date(StartTime)} : get_daily_status(101, d)
  \/ get_daily_status(102, NoDate)
  \/ now + 3 <= StartTime + MaxTicks /\ Tick(3)

SpecIsolation == Init /\ [][NextIsolation]_vars

-----------------------------------------------------------------------------
(* Requests whose database statements may raise                             *)

\* except Exception (routes.py 270-272): the statement the request is about
\* to run raises (the commit of the row, or one of the queries of the
\* running totals after it) and the handler returns the 500 response
log_meal_raise(t) ==
  /\ threads[t].op = "log_meal"
  /\ threads[t].pc \in {"add", "remaining", "consumed"}
  /\ threads' = [threads EXCEPT ![t] = Done(@, Error(500, "Exception"))]
  /\ UNCHANGED <<users, user_id_seq, meal_plans, catalog, ledger, summaries,
                 now, last, probe, bot>>

NextFault ==
  \/ register_user(101, "weight_loss", Absent)
  \/ \E t \in Threads, r \in ConcRequests : log_meal_begin(t, r)
  \/ \E t \in Threads : log_meal_add(t)
  \/ \E t \in Threads : log_meal_remaining(t)
  \/ \E t \in Threads : log_meal_consumed(t)
  \/ \E t \in Threads : log_meal_raise(t)
  \/ \E t \in Threads : respond(t)

SpecFault == Init /\ [][NextFault]_vars

-----------------------------------------------------------------------------
(* The chat bot: app/telegram_bot/webhook_bot.py.  One step handles one     *)
(* message.  A handler that awaits the API before it resets the step stays  *)
(* in "inflight" until the response arrives.  The requests sent to the API  *)
(* are recorded; the API's handlers are the actions above.                  *)

MaxInflight == 2

t_start == <<"/","s","t","a","r","t">>
t_help == <<"/","h","e","l","p">>
t_plan == <<"/","p","l","a","n">>
t_log == <<"/","l","o","g">>
t_status == <<"/","s","t","a","t","u","s">>
t_suggest == <<"/","s","u","g","g","e","s","t">>
t_none == <<"n","o","n","e">>
t_nan == <<"n","a","n">>
t_inf == <<"i","n","f">>
t_infinity == <<"i","n","f","i","n","i","t","y">>
t_Bob == <<"B","o","b">>
t_20 == <<"2","0">>
t_120 == <<"1","2","0">>
t_1_5 == <<"1",".","5">>

Some(x) == <<x>>

\* Python truth of a dict value that is None or a str
truthy(v) == v # None /\ v[1] # <<>>

DigitChars == <<"0","1","2","3","4","5","6","7","8","9">>
IsDigit(c) == \E i \in 1..10 : DigitChars[i] = c
DigitValue(c) == (CHOOSE i \in 1..10 : DigitChars[i] = c) - 1
AllDigits(s) == s # <<>> /\ \A i \in 1..Len(s) : IsDigit(s[i])

RECURSIVE digits_value(_)
digits_value(s) ==
  IF s = <<>> THEN 0
  ELSE digits_value(SubSeq(s, 1, Len(s) - 1)) * 10 + DigitValue(s[Len(s)])

sign_of(s) == IF s # <<>> /\ s[1] = "-" THEN -1 ELSE 1
unsigned(s) == IF s # <<>> /\ s[1] \in {"+", "-"} THEN Tail(s) ELSE s

\* int(text): Some(value), or None where Python raises ValueError.  Texts
\* are an optional sign and decimal digits between spaces.
int(text) ==
  LET s == strip(text)
      body == unsigned(s)
  IN IF AllDigits(body) THEN Some(sign_of(s) * digits_value(body)) ELSE None

\* float(text): Some(<<n, d>>), or None where Python raises ValueError; nan
\* is <<0, 0>> and the infinities are <<1, 0>> and <<-1, 0>>.  Texts are an
\* optional sign and a decimal numeral, "nan", "inf" or "infinity" in any
\* letter case, between spaces.
float(text) ==
  LET s == strip(text)
      body == unsigned(s)
      dots == {i \in 1..Len(body) : body[i] = "."}
  IN IF lower(body) = t_nan THEN Some(<<0, 0>>)
     ELSE IF lower(body) \in {t_inf, t_infinity} THEN Some(<<sign_of(s), 0>>)
     ELSE IF dots = {}
     THEN IF AllDigits(body) THEN Some(<<sign_of(s) * digits_value(body), 1>>)
          ELSE None
     ELSE IF Cardinality(dots) = 1
     THEN LET i == CHOOSE k \in dots : TRUE
              whole == SubSeq(body, 1, i - 1)
              fraction == SubSeq(body, i + 1, Len(body))
          IN IF AllDigits(whole \o fraction)
             THEN Some(Rat(sign_of(s) * digits_value(whole \o fraction),
                           10 ^ Len(fraction)))
             ELSE None
     ELSE None

\* a range test that compares nan and the infinities like numbers
between_any_float(lo, x, hi) == lo * x[2] <= x[1] /\ x[1] <= hi * x[2]

\* lo <= x <= hi on a float: false for nan and for the infinities
between(lo, x, hi) == x[2] # 0 /\ lo * x[2] <= x[1] /\ x[1] <= hi * x[2]

\* text.replace(" ", "_")
replace_spaces(s) == [i \in 1..Len(s) |-> IF s[i] = " " THEN "_" ELSE s[i]]

\* [a.strip() for a in text.split(",")]
RECURSIVE split_commas(_)
split_commas(s) ==
  IF \E i \in 1..Len(s) : s[i] = ","
  THEN LET i == CHOOSE k \in 1..Len(s) :
                  s[k] = "," /\ \A m \in 1..(k - 1) : s[m] # ","
       IN <<strip(SubSeq(s, 1, i - 1))>> \o split_commas(SubSeq(s, i + 1, Len(s)))
  ELSE <<strip(s)>>

NewUserState ==
  [step |-> Absent, goal |-> None, diet_type |-> None, allergies |-> None,
   meal_type |-> None, food_name |-> None, quantity |-> None]
NewUserData == [name |-> None, age |-> None, weight |-> None, height |-> None]

\* the dict after get_user_state(user_id) and after get_user_data(user_id)
get_user_state(d, user_id) ==
  IF user_id \in DOMAIN d THEN d ELSE d @@ (user_id :> NewUserState)
get_user_data(d, user_id) ==
  IF user_id \in DOMAIN d THEN d ELSE d @@ (user_id :> NewUserData)

\* set_user_step on the user's entry
set_user_step(state, step) == [state EXCEPT !.step = step]

\* what one call of webhook does: the user's two entries afterwards, the
\* message sent, the requests sent to the API, and whether the handler is
\* left awaiting the API with the step still to reset
Handled(state, user, reply, calls, awaits) ==
  [state |-> state, user |-> user, reply |-> reply, calls |-> calls,
   awaits |-> awaits]

\* the branches of webhook, in the order of the source; outcome is what
\* the API does with a request: "200", another status code, or an exception
webhook_branches(user_id, state, user, text, outcome) ==
  LET step == state.step
  IN IF text = t_start
     THEN IF truthy(user.name)
          THEN Handled(set_user_step(state, Absent), user, "welcome_back",
                       <<>>, FALSE)
          ELSE Handled(set_user_step(state, "start_name"), user, "ask_name",
                       <<>>, FALSE)
     ELSE IF step = "start_name"
     THEN Handled(set_user_step(state, "start_age"),
                  [user EXCEPT !.name = Some(text)], "ask_age", <<>>, FALSE)
     ELSE IF step = "start_age"
     THEN LET age == int(text)
          IN IF age = None
             THEN Handled(state, user, "enter_a_number", <<>>, FALSE)
             ELSE IF 15 <= age[1] /\ age[1] <= 100
             THEN Handled(set_user_step(state, "start_weight"),
                          [user EXCEPT !.age = age], "ask_weight", <<>>, FALSE)
             ELSE Handled(state, user, "age_range", <<>>, FALSE)
     ELSE IF step = "start_weight"
     THEN LET weight == float(text)
          IN IF weight = None
             THEN Handled(state, user, "enter_a_number", <<>>, FALSE)
             ELSE IF between(30, weight[1], 300)
             THEN Handled(set_user_step(state, "start_height"),
                          [user EXCEPT !.weight = weight], "ask_height",
                          <<>>, FALSE)
             ELSE Handled(state, user, "weight_range", <<>>, FALSE)
     ELSE IF step = "start_height"
     THEN LET height == float(text)
          IN IF height = None
             THEN Handled(state, user, "enter_a_number", <<>>, FALSE)
             ELSE IF between(100, height[1], 250)
             THEN Handled(set_user_step(state, Absent),
                          [user EXCEPT !.height = height],
                          IF outcome = "200" THEN "profile_saved"
                          ELSE "registration_failed",
                          <<[endpoint |-> "/register-user",
                             json |-> [id |-> user_id, name |-> user.name,
                                       age |-> user.age,
                                       weight |-> user.weight,
                                       height |-> height]]>>,
                          FALSE)
             ELSE Handled(state, user, "height_range", <<>>, FALSE)
     ELSE IF text = t_help
     THEN Handled(state, user, "help", <<>>, FALSE)
     ELSE IF ~truthy(user.name)
     THEN Handled(state, user, "use_start_first", <<>>, FALSE)
     ELSE IF text = t_plan
     THEN Handled(set_user_step(state, "plan_goal"), user, "ask_goal",
                  <<>>, FALSE)
     ELSE IF step = "plan_goal"
     THEN Handled(set_user_step([state EXCEPT
                                   !.goal = Some(replace_spaces(lower(text)))],
                                "plan_diet"),
                  user, "ask_diet", <<>>, FALSE)
     ELSE IF step = "plan_diet"
     THEN Handled(set_user_step([state EXCEPT !.diet_type = Some(lower(text))],
                                "plan_allergies"),
                  user, "ask_allergies", <<>>, FALSE)
     ELSE IF step = "plan_allergies"
     THEN LET allergies == IF lower(text) = t_none THEN <<>>
                           ELSE split_commas(text)
          IN Handled([state EXCEPT !.allergies = Some(allergies)], user,
                     "",
                     <<[endpoint |-> "/meal-plan",
                        json |-> [id |-> user_id, name |-> user.name,
                                  age |-> user.age, weight |-> user.weight,
                                  height |-> user.height,
                                  diet_type |-> state.diet_type,
                                  goal |-> state.goal,
                                  allergies |-> allergies]]>>,
                     TRUE)
     ELSE IF text = t_log
     THEN Handled(set_user_step(state, "log_meal_type"), user, "ask_meal",
                  <<>>, FALSE)
     ELSE IF step = "log_meal_type"
     THEN Handled(set_user_step([state EXCEPT !.meal_type = Some(text)],
                                "log_food"),
                  user, "ask_food", <<>>, FALSE)
     ELSE IF step = "log_food"
     THEN Handled(set_user_step([state EXCEPT !.food_name = Some(text)],
                                "log_quantity"),
                  user, "ask_quantity", <<>>, FALSE)
     ELSE IF step = "log_quantity"
     THEN LET quantity == float(text)
          IN IF quantity = None
             THEN Handled(state, user, "enter_a_number", <<>>, FALSE)
             ELSE Handled(set_user_step([state EXCEPT !.quantity = quantity],
                                        "log_unit"),
                          user, "ask_unit", <<>>, FALSE)
     ELSE IF step = "log_unit"
     THEN Handled(state, user, "",
                  <<[endpoint |-> "/log-meal",
                     params |-> [user_id |-> user_id,
                                 meal_type |-> state.meal_type,
                                 food_name |-> state.food_name,
                                 quantity |-> state.quantity,
                                 unit |-> text]]>>,
                  TRUE)
     ELSE IF text = t_status
     THEN Handled(state, user,
                  IF outcome = "200" THEN "progress"
                  ELSE IF outcome = "exception" THEN "error" ELSE "no_data",
                  <<[endpoint |-> "/daily-status",
                     params |-> [user_id |-> user_id]]>>,
                  FALSE)
     ELSE IF text = t_suggest
     THEN Handled(state, user,
                  IF outcome = "200" THEN "suggestions"
                  ELSE IF outcome = "exception" THEN "error"
                  ELSE "error_getting_suggestions",
                  <<[endpoint |-> "/suggest-next-meal",
                     params |-> [user_id |-> user_id]]>>,
                  FALSE)
     ELSE Handled(state, user, "unknown_command", <<>>, FALSE)

Outcomes == {"200", "error", "exception"}

\* POST /telegram/webhook with a message of user_id
webhook(user_id, text, outcome) ==
  \E d \in {get_user_state(user_state, user_id)}, u \in {get_user_data(user_data, user_id)} :
    \E r \in {webhook_branches(user_id, d[user_id], u[user_id], text, outcome)} :
      /\ r.awaits => Len(inflight) < MaxInflight
      /\ user_state' = [d EXCEPT ![user_id] = r.state]
      /\ user_data' = [u EXCEPT ![user_id] = r.user]
      /\ inflight' = IF r.awaits
                     THEN Append(inflight, [user_id |-> user_id,
                                            endpoint |-> r.calls[1].endpoint])
                     ELSE inflight
      /\ api_requests' = api_requests \cup
                           {<<r.calls[i].endpoint, user_id>> : i \in 1..Len(r.calls)}
      /\ last' = [op |-> "webhook",
                  args |-> [user_id |-> user_id, text |-> text],
                  resp |-> [reply |-> r.reply, calls |-> r.calls]]
      /\ UNCHANGED <<users, user_id_seq, meal_plans, catalog, ledger,
                     summaries, now, probe, threads>>

\* the API answers the i-th awaiting handler: it sends its message and then
\* calls set_user_step(user_id, None)
webhook_resume(i, outcome) ==
  /\ i \in 1..Len(inflight)
  /\ \E h \in {inflight[i]} :
       /\ user_state' = [user_state EXCEPT
                           ![h.user_id] = set_user_step(@, Absent)]
       /\ last' = [op |-> "webhook_resume",
                   args |-> [user_id |-> h.user_id, endpoint |-> h.endpoint],
                   resp |-> [reply |->
                               IF outcome = "200"
                               THEN (IF h.endpoint = "/log-meal"
                                     THEN "meal_logged" ELSE "meal_plan")
                               ELSE IF outcome = "exception" THEN "error"
                               ELSE "api_error",
                             calls |-> <<>>]]
  /\ inflight' = [k \in 1..(Len(inflight) - 1) |->
                    IF k < i THEN inflight[k] ELSE inflight[k + 1]]
  /\ UNCHANGED <<users, user_id_seq, meal_plans, catalog, ledger, summaries,
                 now, probe, threads, user_data, api_requests>>

\* the messages of a user who sets a profile up
ProfileTexts ==
  {t_start, t_help, t_status, t_suggest, t_Bob, t_20, t_120, t_1_5, t_nan}

NextBotProfile ==
  \E text \in ProfileTexts, outcome \in Outcomes : webhook(101, text, outcome)

SpecBotProfile == Init /\ [][NextBotProfile]_vars

\* the messages of a user who sends commands and a name
CommandTexts == {t_start, t_help, t_plan, t_status, t_Bob, t_20, t_120}

NextBotCommands ==
  \/ \E text \in CommandTexts, outcome \in Outcomes : webhook(101, text, outcome)
  \/ \E i \in 1..MaxInflight, outcome \in Outcomes : webhook_resume(i, outcome)

SpecBotCommands == Init /\ [][NextBotCommands]_vars

\* the messages of a user who gives a name and logs meals
LogTexts == {t_start, t_log, t_Bob, t_20, t_120, t_nan}

NextBotLog ==
  \/ \E text \in LogTexts, outcome \in Outcomes : webhook(101, text, outcome)
  \/ \E i \in 1..MaxInflight, outcome \in Outcomes : webhook_resume(i, outcome)

SpecBotLog == Init /\ [][NextBotLog]_vars

-----------------------------------------------------------------------------
(* Properties *)

IsLogMeal(l) == l.op = "log_meal"
Succeeded(l) == l.resp.status = "success"
Failed(l, msg) == l.resp.status = "error" /\ l.resp.error = msg

\* a step in which log_meal has answered a request
LogMealStep == IsLogMeal(last') /\ (last' # last \/ ledger' # ledger)

IsPrefix(s, t) == Len(s) <= Len(t) /\ SubSeq(t, 1, Len(s)) = s

\* C1: a log_meal that repeats the successful log_meal call before it is
\* rejected as a duplicate and adds no row when less than 5 minutes have
\* passed, and succeeds and adds one row when 5 minutes or more have passed.
C1_DuplicateGuardSequential ==
  [][(IsLogMeal(last) /\ Succeeded(last) /\ LogMealStep
      /\ last'.args = last.args)
     => IF now - ledger[Len(ledger)].logged_at < WindowMinutes
        THEN Failed(last', "Already logged in last 5 mins") /\ ledger' = ledger
        ELSE Succeeded(last') /\ Len(ledger') = Len(ledger) + 1]_vars

\* C2: after a successful log_meal the daily_summaries row of (user, today)
\* exists and holds the sums and the count of that user's rows of today.
C2_SummaryRecomputedOnLog ==
  (IsLogMeal(last) /\ Succeeded(last)) =>
    LET u == last.args.user_id
        d == date(ledger[Len(ledger)].logged_at)
        rows == logs_of(ledger, u, d)
    IN \E r \in summaries :
         /\ r.user_id = u /\ r.date = d
         /\ r.consumed_calories = SumInt(rows, "calories")
         /\ r.total_protein_g = SumRat(rows, "protein_g")
         /\ r.total_carbs_g = SumRat(rows, "carbs_g")
         /\ r.total_fats_g = SumRat(rows, "fats_g")
         /\ r.meals_logged = Len(rows)

\* C3: food_logs is append-only: every step keeps the rows there are, a
\* successful log_meal adds exactly one row (that user's, stamped now), and
\* no other step adds one.
C3_LedgerAppendOnly ==
  [][/\ IsPrefix(ledger, ledger')
     /\ Len(ledger') <= Len(ledger) + 1
     /\ (LogMealStep /\ Succeeded(last')) <=> Len(ledger') = Len(ledger) + 1
     /\ Len(ledger') = Len(ledger) + 1 =>
          /\ ledger'[Len(ledger')].user_id = last'.args.user_id
          /\ ledger'[Len(ledger')].logged_at = now
          /\ ledger'[Len(ledger')].food_name = last'.resp.food]_vars

C3_Witness ==
  /\ Len(ledger) = 2
  /\ summaries # {}
  /\ last.op = "suggest_next_meal"

InvalidInput(a) ==
  \/ a.user_id <= 0
  \/ a.meal_type \notin {"breakfast", "morning_snack", "lunch",
                         "afternoon_snack", "dinner", "evening_snack"}
  \/ Len(a.food_name) < 2
  \/ a.quantity[1] <= 0
  \/ a.unit = <<>>

ValidationReasons ==
  {"Invalid user ID", "Invalid meal type",
   "Food name must be at least 2 characters",
   "Quantity must be greater than 0", "Unit is required"}

\* C4: a log_meal whose input fails validation answers with an error that
\* names a validation reason and leaves food_logs, daily_summaries and users
\* as they were.
C4_ValidationRejects ==
  [][(LogMealStep /\ InvalidInput(last'.args))
     => /\ last'.resp.status = "error"
        /\ last'.resp.error \in ValidationReasons
        /\ UNCHANGED <<ledger, summaries, users>>]_vars

C4_Witness ==
  /\ IsLogMeal(last)
  /\ Failed(last, "Quantity must be greater than 0")
  /\ Len(ledger) >= 1
  /\ summaries # {}

\* C5: a successful log_meal with unit "serving" records
\* calories = round(food.default_calories * quantity).
C5_ServingCaloriesRounded ==
  (IsLogMeal(last) /\ Succeeded(last) /\ last.args.unit = u_serving) =>
    \A i \in 1..Len(catalog) :
      catalog[i].food_name = last.resp.food =>
        last.resp.actual_calories =
          round(RMul(RInt(catalog[i].default_calories), last.args.quantity))

\* C6: convert_to_serving_multiplier(q, "serving", size, unit, name) = q for
\* every serving size, serving unit and name.
C6_ServingIsIdentity ==
  (probe.op = "convert" /\ probe.user_unit = u_serving) =>
    probe.result = probe.quantity

C6_Witness ==
  /\ probe.op = "convert"
  /\ probe.user_unit = u_serving
  /\ probe.food_serving_unit = u_grams
  /\ probe.food_serving_size = 400
  /\ probe.quantity = Rat(3, 2)
  /\ probe.result = Rat(3, 2)

SameUnit(p) == lower(p.unit) = lower(p.food.serving_unit)
Servings(p) == Rat(p.quantity[1], p.quantity[2] * p.food.serving_size)

\* C7 as stated: when the user's unit equals the food's serving unit up to
\* letter case, the multiplier is quantity / serving_size.
C7_ReferenceUnitDivides ==
  (probe.op = "serving_multiplier" /\ SameUnit(probe)) =>
    probe.result = Servings(probe)

\* C7 amended: when the user's unit equals the food's serving unit up to
\* letter case and is not "serving", the multiplier is
\* quantity / serving_size.
C7_ReferenceUnitDividesUnlessServing ==
  (probe.op = "serving_multiplier" /\ SameUnit(probe)
   /\ lower(probe.unit) # u_serving) =>
    probe.result = Servings(probe)

C7_Witness ==
  /\ probe.op = "serving_multiplier"
  /\ probe.unit = t_GRAMS
  /\ probe.food.serving_unit = d_Grams
  /\ probe.food.serving_size = 400
  /\ probe.quantity = RInt(200)
  /\ probe.result = Rat(1, 2)

TableKeys(user_unit, serving_unit) ==
  {e \in 1..Len(conversions) :
     conversions[e][1] = user_unit /\ conversions[e][2] = serving_unit}

\* C8: when the user's unit is neither "serving" nor the serving unit and
\* (user unit, serving unit) is a key of the conversion table, the
\* multiplier is quantity * factor / serving_size for the factor of the
\* first table key contained in the lower-cased food name; 1 bowl of
\* Biryani (400 grams) gives 1 and 23 pieces of Almonds (30 grams) 23/25.
C8_TableConversion ==
  probe.op = "serving_multiplier" =>
    LET u == lower(probe.unit)
        su == lower(probe.food.serving_unit)
        name == lower(probe.food.food_name)
    IN /\ (u # u_serving /\ u # su) =>
            \A e \in TableKeys(u, su) :
              \A i \in 1..Len(conversions[e][3]) :
                (/\ Contains(conversions[e][3][i][1], name)
                 /\ \A m \in 1..(i - 1) :
                      ~Contains(conversions[e][3][m][1], name))
                => probe.result =
                     Rat(probe.quantity[1] * conversions[e][3][i][2][1],
                         probe.quantity[2] * conversions[e][3][i][2][2]
                           * probe.food.serving_size)
       /\ (u = u_bowl /\ su = u_grams /\ probe.food.food_name = n_Biryani
           /\ probe.food.serving_size = 400 /\ probe.quantity = RInt(1))
          => probe.result = RInt(1)
       /\ (u = u_piece /\ su = u_grams /\ probe.food.food_name = n_Almonds
           /\ probe.food.serving_size = 30 /\ probe.quantity = RInt(23))
          => probe.result = Rat(92, 100)

C8_Witness ==
  /\ probe.op = "serving_multiplier"
  /\ probe.unit = t_Piece
  /\ probe.food.serving_unit = d_Grams
  /\ probe.food.food_name = n_IdliSamosa
  /\ probe.food.serving_size = 400
  /\ probe.quantity = RInt(23)
  /\ probe.result = Rat(2300, 400)

\* no rule of the converter applies to the unit and the food
NoRule(unit, food) ==
  LET u == lower(unit)
      su == lower(food.serving_unit)
  IN /\ u # u_serving
     /\ u # su
     /\ \A e \in TableKeys(u, su) :
          \A i \in 1..Len(conversions[e][3]) :
            ~Contains(conversions[e][3][i][1], lower(food.food_name))

EarlierRejections ==
  ValidationReasons \cup
    {"User not found", "Already logged in last 5 mins",
     "Food not found in database"}

\* C9: a log_meal that passes validation, the user check, the duplicate
\* guard and food resolution, and whose unit no conversion rule covers for
\* the resolved food, is rejected as unsupported with the food's serving
\* unit as hint and adds no row.
C9_UnsupportedUnitRejected ==
  [][(/\ LogMealStep
      /\ ~(last'.resp.status = "error"
           /\ last'.resp.error \in EarlierRejections)
      /\ NoRule(last'.args.unit,
                catalog[fuzzy_search_food(catalog, last'.args.food_name)]))
     => /\ Failed(last', "Unit not supported")
        /\ last'.resp.try =
             catalog[fuzzy_search_food(catalog, last'.args.food_name)].serving_unit
        /\ ledger' = ledger]_vars

C9_Witness ==
  /\ IsLogMeal(last)
  /\ Failed(last, "Unit not supported")
  /\ last.args.unit = u_cup
  /\ last.resp.try = u_grams
  /\ Len(ledger) >= 1

\* C10: an input equal to a canonical name up to letter case resolves to
\* the row of that name.
C10_ExactNameWins ==
  probe.op = "fuzzy_search_food" =>
    \A i \in 1..Len(catalog) :
      lower(catalog[i].food_name) = lower(probe.food_name) =>
        probe.row = i

IsStatus(l) == l.op = "get_daily_status"
summary_rows(sums, u, d) == {r \in sums : r.user_id = u /\ r.date = d}

\* the totals a summary row must hold: the fold of the user's rows of the day
IsFold(r, us, logs, u, d) ==
  LET rows == logs_of(logs, u, d)
      target == calculate_daily_calories(get_user(us, u).goal).total
  IN /\ r.consumed_calories = SumInt(rows, "calories")
     /\ r.remaining_calories = target - SumInt(rows, "calories")
     /\ r.total_protein_g = SumRat(rows, "protein_g")
     /\ r.total_carbs_g = SumRat(rows, "carbs_g")
     /\ r.total_fats_g = SumRat(rows, "fats_g")
     /\ r.meals_logged = Len(rows)

\* C11: once get_daily_status has recomputed the summary of (user, date),
\* recomputing it again with no row added since leaves the table as it is
\* (same consumed, remaining, macros, meals_logged) with exactly one row for
\* that (user, date).
C11_RecomputeIdempotent ==
  (IsStatus(last) /\ Succeeded(last)) =>
    LET u == last.args.user_id
        d == last.resp.date
        again == create_or_update_daily_summary(users, ledger, summaries, u, d)
    IN /\ again = summaries
       /\ Cardinality(summary_rows(again, u, d)) = 1

C11_Witness ==
  /\ IsStatus(last) /\ Succeeded(last)
  /\ last.resp.meals_logged = 2
  /\ last.resp.consumed_calories > 0

\* C13: when get_daily_status has answered, the stored summary of
\* (user, date) and the day totals of the response equal the fold of the
\* user's food_logs rows of that date.
C13_StatusSelfHeals ==
  (IsStatus(last) /\ Succeeded(last)) =>
    LET u == last.args.user_id
        d == last.resp.date
        rows == logs_of(ledger, u, d)
    IN /\ \A r \in summary_rows(summaries, u, d) :
            IsFold(r, users, ledger, u, d)
       /\ summary_rows(summaries, u, d) # {}
       /\ last.resp.consumed_calories = SumInt(rows, "calories")
       /\ last.resp.remaining_calories
            = last.resp.target_calories - SumInt(rows, "calories")
       /\ last.resp.meals_logged = Len(rows)
       /\ last.resp.macros.protein_g = round1(SumRat(rows, "protein_g"))
       /\ last.resp.macros.carbs_g = round1(SumRat(rows, "carbs_g"))
       /\ last.resp.macros.fats_g = round1(SumRat(rows, "fats_g"))

\* a status read after a row was added on each of two days
C13_Witness ==
  /\ IsStatus(last) /\ Succeeded(last)
  /\ Len(ledger) = 2
  /\ date(ledger[1].logged_at) < date(ledger[2].logged_at)
  /\ last.resp.date = date(ledger[2].logged_at)
  /\ last.resp.meals_logged = 1

\* the tiers of the advisory message, by remaining = target - consumed
TierOf(remaining) ==
  {t \in {"over_light_snack", "over_new_day", "great_start",
          "consider_snack", "almost_there"} :
     \/ t = "over_light_snack" /\ -100 <= remaining /\ remaining <= -1
     \/ t = "over_new_day" /\ remaining < -100
     \/ t = "great_start" /\ remaining > 500
     \/ t = "consider_snack" /\ 200 < remaining /\ remaining <= 500
     \/ t = "almost_there" /\ 0 <= remaining /\ remaining <= 200}

\* C17: handle_meal_response answers every (consumed, target) with the one
\* tier of remaining = target - consumed: [-100, -1] mild over, below -100
\* stronger over, above 500 great start, (200, 500] consider a snack,
\* [0, 200] almost there; the amount it names is |remaining|.
C17_AdvisoryTiers ==
  probe.op = "handle_meal_response" =>
    LET remaining == probe.target - probe.consumed
    IN /\ TierOf(remaining) = {probe.result.tier}
       /\ probe.result.cal = IF remaining < 0 THEN -remaining ELSE remaining

C17_Witness ==
  /\ probe.op = "handle_meal_response"
  /\ probe.target - probe.consumed = 500
  /\ probe.result.tier = "consider_snack"

IsRegistration(l) == l.op \in {"register_user", "create_meal_plan"}

\* C18: a registration (register_user, or the create_or_get_user of
\* create_meal_plan) that repeats the successful registration before it, same
\* profile, succeeds with the same user id and leaves the users table as it
\* is.
C18_RegistrationIdempotent ==
  [][(/\ IsRegistration(last) /\ Succeeded(last)
      /\ last'.op = last.op /\ last'.args = last.args
      /\ (last' # last \/ users' # users \/ meal_plans' # meal_plans))
     => /\ users' = users
        /\ Succeeded(last')
        /\ last'.resp.user_id = last.resp.user_id]_vars

IsSuggest(l) == l.op = "suggest_next_meal"

\* C19: suggest_next_meal answers with the first 5, at most, of the food
\* table's rows, in the table's order, whose category is the slot of the hour
\* and whose calories lie in [target - 100, target + 100], bounds included.
C19_SuggestionFilter ==
  (IsSuggest(last) /\ Succeeded(last)) =>
    LET sg == last.resp.suggestions
        slot == last.resp.meal_type
        target == last.resp.target_calories
        matches == SelectSeq(catalog, LAMBDA f :
                               /\ f.category = slot
                               /\ target - 100 <= f.default_calories
                               /\ f.default_calories <= target + 100)
    IN /\ Len(sg) <= 5
       /\ Len(sg) = Min(5, Len(matches))
       /\ \A k \in 1..Len(sg) :
            /\ sg[k].food = matches[k].food_name
            /\ sg[k].calories = matches[k].default_calories

\* six rows match, on both bounds among them, and five are returned
C19_Witness ==
  /\ IsSuggest(last) /\ Succeeded(last)
  /\ catalog = SnackCatalog
  /\ Len(last.resp.suggestions) = 5
  /\ last.resp.suggestions[1].calories = 50
  /\ last.resp.suggestions[2].calories = 250

\* the row of the food table named as the ledger row l, when its calories
\* are no longer those of one serving as logged
Reseeded(l) ==
  \E i \in 1..Len(catalog) :
     /\ catalog[i].food_name = l.food_name
     /\ catalog[i].default_calories = 650

\* C20: a step that changes the food table changes no food_logs row and no
\* summary, and the day totals a later get_daily_status stores and returns
\* are the fold of the rows as they were logged.
C20_LogEntriesAreSnapshots ==
  /\ [][catalog' # catalog => ledger' = ledger /\ summaries' = summaries]_vars
  /\ []((IsStatus(last) /\ Succeeded(last)) =>
          LET u == last.args.user_id
              d == last.resp.date
          IN /\ last.resp.consumed_calories
                  = SumInt(logs_of(ledger, u, d), "calories")
             /\ \A r \in summary_rows(summaries, u, d) :
                  IsFold(r, users, ledger, u, d))

\* Biryani logged at 600 calories, the table reseeded with 650, the day read
C20_Witness ==
  /\ IsStatus(last) /\ Succeeded(last)
  /\ Len(ledger) >= 1
  /\ ledger[1].calories = 600 /\ Reseeded(ledger[1])
  /\ date(ledger[1].logged_at) = last.resp.date
  /\ last.resp.consumed_calories = 600

-----------------------------------------------------------------------------
(* Concurrent request threads                                              *)

IsDone(th, op) == th.op = op /\ th.pc = "done"

\* C12: in every reachable state the daily_summaries table holds at most one
\* row per (user id, date), also when two recomputations of a (user, date)
\* that has no row yet run concurrently.
C12_OneSummaryPerUserDay ==
  \A r1, r2 \in summaries :
    (r1.user_id = r2.user_id /\ r1.date = r2.date) => r1 = r2

\* two recomputations read "no row"; one inserted, the other was refused
C12_Witness ==
  /\ \E t \in Threads :
       /\ IsDone(threads[t], "get_daily_status")
       /\ threads[t].resp = Error(500, "IntegrityError")
  /\ Cardinality(summary_rows(summaries, 101, date(now))) = 1

\* C14: every recomputation that writes the summary of (user, date) stores
\* the fold of the food_logs rows committed at the moment of its write, under
\* any interleaving with log_meal appends and other recomputations.
C14_RecomputeSerialized ==
  [][\A t \in Threads :
       (/\ threads[t].op = "get_daily_status" /\ threads[t].pc = "commit"
        /\ threads'[t].pc = "logs") =>
         \A r \in summary_rows(summaries', threads[t].args.user_id,
                               threads[t].loc.date_obj) :
           IsFold(r, users, ledger, threads[t].args.user_id,
                  threads[t].loc.date_obj)]_vars

\* C15: the duplicate guard is not checked again when the row is added: the
\* add of a thread that passed the guard always appends its row, so two
\* requests that both passed it both append (two rows of one (user, food)
\* inside the 5-minute window are reachable).
C15_GuardAndAppendNotAtomic ==
  [][\A t \in Threads :
       (/\ threads[t].op = "log_meal" /\ threads[t].pc = "add"
        /\ threads'[t].pc = "remaining") =>
         /\ Len(ledger') = Len(ledger) + 1
         /\ ledger'[Len(ledger')].food_name = threads[t].loc.row[1].food_name
         /\ ledger'[Len(ledger')].user_id = threads[t].args.user_id]_vars

\* two rows of one (user, food) one inside the guard window of the other
C15_Witness ==
  /\ Len(ledger) = 2
  /\ ledger[1].user_id = ledger[2].user_id
  /\ ledger[1].food_name = ledger[2].food_name
  /\ ledger[2].logged_at - ledger[1].logged_at < 5
  /\ prevent_duplicate_log(<<ledger[1]>>, ledger[2].user_id,
                           ledger[2].food_name, ledger[2].logged_at)
  /\ \A t \in Threads : threads[t].op = "log_meal" /\ threads[t].pc # "add"

\* C16: every success response of log_meal has
\* remaining = target - consumed_total, also when another log_meal of the
\* same user commits while the response is computed.
C16_RemainingMatchesConsumed ==
  \A t \in Threads :
    (IsDone(threads[t], "log_meal") /\ threads[t].resp.status = "success") =>
      threads[t].resp.remaining
        = calculate_daily_calories(
            get_user(users, threads[t].args.user_id).goal).total
          - threads[t].resp.consumed_total

-----------------------------------------------------------------------------
(* Summaries, status, targets, order of checks                              *)

\* C21: every stored daily_summaries row has
\* remaining_calories = target_calories - consumed_calories, after any
\* sequence of logs, status queries and changes of the user's goal.
C21_RemainingIsTargetMinusConsumed ==
  \A r \in summaries :
    r.remaining_calories = r.target_calories - r.consumed_calories

SlotSet == {MealTypes[i] : i \in 1..Len(MealTypes)}
SlotRows(rows, mt) == SelectSeq(rows, LAMBDA l : l.meal_type = mt)
SlotsConsumed(m) ==
  m["breakfast"].consumed + m["morning_snack"].consumed + m["lunch"].consumed
    + m["afternoon_snack"].consumed + m["dinner"].consumed
    + m["evening_snack"].consumed

\* what C22 asks of a status response r of user u: the slots hold the fold of
\* the day's rows as they were at some moment (food_logs only grows), each
\* slot's remaining is its target minus its consumed, and the slots add up
\* to the day's consumed_calories
StatusBreakdown(r, us, logs, u) ==
  LET day == logs_of(logs, u, r.date)
      targets == calculate_daily_calories(get_user(us, u).goal)
  IN /\ \E k \in 0..Len(day) :
          \A mt \in SlotSet :
            r.meals_by_type[mt].consumed
              = SumInt(SlotRows(SubSeq(day, 1, k), mt), "calories")
     /\ \A mt \in SlotSet :
          /\ r.meals_by_type[mt].target = targets[mt]
          /\ r.meals_by_type[mt].remaining
               = targets[mt] - r.meals_by_type[mt].consumed
     /\ SlotsConsumed(r.meals_by_type) = r.consumed_calories

\* C22: a get_daily_status response reports for each of the six slots
\* consumed = sum of the slot's rows of the day and remaining = slot target -
\* consumed, and the six consumed values add up to the consumed_calories of
\* the same response, also when a log_meal of the user commits during the
\* status request.
C22_SlotsAddUpToDay ==
  \A t \in Threads :
    (IsDone(threads[t], "get_daily_status")
       /\ threads[t].resp.status = "success") =>
      StatusBreakdown(threads[t].resp, users, ledger, threads[t].args.user_id)

\* the same of the handler run alone
C22_SlotsAddUpSequential ==
  (IsStatus(last) /\ Succeeded(last)) =>
    StatusBreakdown(last.resp, users, ledger, last.args.user_id)

\* the three tables of slot targets: breakfast, morning_snack, lunch,
\* afternoon_snack, dinner, evening_snack
TargetSlots(goal) ==
  IF goal = "weight_loss" THEN <<350, 150, 500, 150, 500, 150>>
  ELSE IF goal = "muscle_gain" THEN <<500, 200, 700, 200, 650, 250>>
  ELSE <<400, 150, 600, 150, 600, 300>>

\* C23: the targets depend on the goal alone: "weight_loss" and
\* "muscle_gain" select their tables, every other goal (an absent one too)
\* the maintenance table; the total of each table is the sum of its six slot
\* targets and greater than 0.
C23_TargetsByGoal ==
  probe.op = "calculate_daily_calories" =>
    LET r == probe.result
        goal == IF probe.goal \in {"weight_loss", "muscle_gain"}
                THEN probe.goal ELSE "maintenance"
    IN /\ \A i \in 1..Len(MealTypes) : r[MealTypes[i]] = TargetSlots(goal)[i]
       /\ r.total = r.breakfast + r.morning_snack + r.lunch
                      + r.afternoon_snack + r.dinner + r.evening_snack
       /\ r.total > 0
       /\ DOMAIN r = SlotSet \cup {"total"}

\* a goal that is none of the three named ones
C23_Witness ==
  /\ probe.op = "calculate_daily_calories"
  /\ probe.goal \notin {"weight_loss", "muscle_gain", "maintenance"}
  /\ probe.result.total = 2200

\* C27: the hour-to-slot mapping is defined on every hour 0..23: 6-9
\* breakfast, 10-11 morning_snack, 12-14 lunch, 15-16 afternoon_snack, 17-19
\* dinner, every other hour (20-23, 0-5) evening_snack.
C27_HourToSlot ==
  probe.op = "get_current_meal_type" =>
    LET h == hour(probe.t)
    IN /\ h \in 0..23
       /\ probe.result \in SlotSet
       /\ (h \in 6..9) = (probe.result = "breakfast")
       /\ (h \in 10..11) = (probe.result = "morning_snack")
       /\ (h \in 12..14) = (probe.result = "lunch")
       /\ (h \in 15..16) = (probe.result = "afternoon_snack")
       /\ (h \in 17..19) = (probe.result = "dinner")
       /\ (h \in (20..23) \cup (0..5)) = (probe.result = "evening_snack")

\* the last minute before 10:00 is breakfast
C27_Witness ==
  /\ probe.op = "get_current_meal_type"
  /\ probe.t = 9 * 60 + 59
  /\ probe.result = "breakfast"

\* does check c of a log_meal request a fail on the tables as they are
CheckFails(c, a) ==
  IF c = "validation" THEN InvalidInput(a)
  ELSE IF c = "user" THEN user_rows(users, a.user_id) = {}
  ELSE IF c = "duplicate"
  THEN prevent_duplicate_log(ledger, a.user_id, a.food_name, now)
  ELSE \E found \in {fuzzy_search_food(catalog, a.food_name)} :
         IF c = "food" THEN found = 0
         ELSE found # 0 /\ serving_multiplier(a.quantity, a.unit, catalog[found]) = None

\* the rejections of a check
Rejections(c) ==
  IF c = "validation" THEN ValidationReasons
  ELSE IF c = "user" THEN {"User not found"}
  ELSE IF c = "duplicate" THEN {"Already logged in last 5 mins"}
  ELSE IF c = "food" THEN {"Food not found in database"}
  ELSE {"Unit not supported"}

\* the position in ord of the first check that fails, 0 when none does
RECURSIVE FirstFailingFrom(_, _, _)
FirstFailingFrom(ord, a, i) ==
  IF i > Len(ord) THEN 0
  ELSE IF CheckFails(ord[i], a) THEN i
  ELSE FirstFailingFrom(ord, a, i + 1)

FirstFailing(ord, a) == FirstFailingFrom(ord, a, 1)

\* log_meal runs the checks of ord in that order up to the first one that
\* fails, answers with the rejection of that check, and adds no row then
ChecksInOrder(ord) ==
  LogMealStep =>
    \A a \in {last'.args} :
      \A run \in {log_meal_checks(users, catalog, ledger, now, a.user_id, a.meal_type, a.food_name, a.quantity, a.unit)} :
        \A k \in {FirstFailing(ord, a)} :
          IF k = 0
          THEN run = ord /\ Succeeded(last')
          ELSE /\ run = SubSeq(ord, 1, k)
               /\ last'.resp.status = "error"
               /\ last'.resp.error \in Rejections(ord[k])
               /\ ledger' = ledger

C25_NotFoundAndDuplicateRejections ==
  [][(LogMealStep /\ ~InvalidInput(last'.args)) =>
       \A a \in {last'.args} :
         \A k \in {FirstFailing(<<"user", "duplicate", "food">>, a)} :
           /\ k = 1 => Failed(last', "User not found")
           /\ k = 2 => /\ Failed(last', "Already logged in last 5 mins")
                        /\ last'.resp.food_name = a.food_name
           /\ k = 3 => /\ Failed(last', "Food not found in database")
                        /\ last'.resp.food_name = a.food_name
           /\ k # 0 => ledger' = ledger /\ summaries' = summaries]_vars

\* a duplicate rejected while a row and a summary are stored
C25_Witness ==
  /\ IsLogMeal(last)
  /\ Failed(last, "Already logged in last 5 mins")
  /\ Len(ledger) >= 1
  /\ summaries # {}

StatusStep ==
  IsStatus(last') /\ (last' # last \/ summaries' # summaries)

\* C26: daily_summaries rows are created lazily and kept: the first
\* get_daily_status of an existing user for a date without a row adds exactly
\* one row, whose totals are the fold of the date's food_logs rows (0 when
\* there are none); get_daily_status of a user that does not exist adds no
\* row; no step removes a row or changes its (id, user, date).
C26_SummariesLazyAndRetained ==
  [][/\ \A r \in summaries :
          \E r2 \in summaries' :
            r2.id = r.id /\ r2.user_id = r.user_id /\ r2.date = r.date
     /\ Cardinality(summaries') >= Cardinality(summaries)
     /\ StatusStep =>
          LET u == last'.args.user_id
              d == IF last'.args.date_obj = NoDate THEN date(now)
                   ELSE last'.args.date_obj
          IN IF user_rows(users, u) = {}
             THEN summaries' = summaries /\ Failed(last', "User not found")
             ELSE IF summary_rows(summaries, u, d) = {}
             THEN /\ Cardinality(summaries' \ summaries) = 1
                  /\ summaries \subseteq summaries'
                  /\ \A r \in summaries' \ summaries :
                       /\ r.user_id = u /\ r.date = d
                       /\ IsFold(r, users, ledger, u, d)
                       /\ logs_of(ledger, u, d) = <<>> => r.consumed_calories = 0
             ELSE Cardinality(summaries') = Cardinality(summaries)]_vars

\* the first status read of a second day, with the row of the first day
\* still stored
C26_Witness ==
  /\ IsStatus(last) /\ Succeeded(last)
  /\ Cardinality(summaries) = 2
  /\ \E r \in summaries : r.date < last.resp.date
  /\ \E r \in summaries : r.date = last.resp.date /\ r.id = 2

\* C28: the duplicate guard is keyed on the resolved food: a log_meal that
\* follows a successful log_meal of the same user less than 5 minutes
\* earlier, with another input text that resolves to the same food_database
\* row (other letter case, an alias, an accepted misspelling), is rejected as
\* a duplicate and adds no row.
C28_GuardKeyedOnResolvedFood ==
  [][(/\ IsLogMeal(last) /\ Succeeded(last) /\ LogMealStep
      /\ ~InvalidInput(last'.args)
      /\ last'.args.user_id = last.args.user_id
      /\ last'.args.food_name # last.args.food_name
      /\ fuzzy_search_food(catalog, last'.args.food_name)
           = fuzzy_search_food(catalog, last.args.food_name)
      /\ now - ledger[Len(ledger)].logged_at < WindowMinutes)
     => Failed(last', "Already logged in last 5 mins") /\ ledger' = ledger]_vars

-----------------------------------------------------------------------------
(* Resolver stages                                                          *)

\* the input as the resolver compares it: lowercased and trimmed
Key(food_name) == strip(lower(food_name))

\* x is one whole ";"-delimited token of the aliases string s, up to letter
\* case and surrounding blanks
IsAliasToken(x, s) ==
  \E i \in 1..Len(s), j \in 1..Len(s) :
    /\ i <= j
    /\ i = 1 \/ s[i - 1] = ";"
    /\ j = Len(s) \/ s[j + 1] = ";"
    /\ \A k \in i..j : s[k] # ";"
    /\ strip(lower(SubSeq(s, i, j))) = x

TokenRows(foods, x) ==
  {i \in 1..Len(foods) : IsAliasToken(x, foods[i].aliases)}

\* the rows the exact stage (stage 1) finds
ExactRows(foods, x) ==
  {i \in 1..Len(foods) : ilike(foods[i].food_name, x)}

Similarity(foods, x, i) == ratio(x, lower(foods[i].food_name))

\* the rows whose similarity to x is the maximum over the catalog
MostSimilar(foods, x) ==
  {i \in 1..Len(foods) :
     \A k \in 1..Len(foods) :
       ~RLess(Similarity(foods, x, i), Similarity(foods, x, k))}

\* C29: when the exact stage finds no canonical name, an input equal (up to
\* letter case, after trimming) to one whole ";"-delimited alias token of a
\* row resolves to a row with that token, ahead of any fuzzy candidate; an
\* input that no alias token equals (a part of a token, say) is not matched
\* at the alias stage: a row is returned for it only by similarity.
C29_AliasTokenStage ==
  probe.op = "fuzzy_search_food" =>
    LET x == Key(probe.food_name)
        byToken == TokenRows(catalog, x)
    IN ExactRows(catalog, x) = {} =>
         /\ byToken # {} => probe.row \in byToken
         /\ (byToken = {} /\ probe.row # 0) =>
              RLess(Threshold, Similarity(catalog, x, probe.row))

\* an alias of one row resolves to it although the name of another row is
\* more similar and above the threshold
C29_Witness ==
  /\ probe.op = "fuzzy_search_food"
  /\ ExactRows(catalog, Key(probe.food_name)) = {}
  /\ probe.row \in TokenRows(catalog, Key(probe.food_name))
  /\ \E i \in 1..Len(catalog) :
       /\ RLess(Threshold, Similarity(catalog, Key(probe.food_name), i))
       /\ RLess(Similarity(catalog, Key(probe.food_name), probe.row),
                Similarity(catalog, Key(probe.food_name), i))

\* C30: when neither the exact stage nor the alias stage matches, the row
\* returned is the first one in catalog order whose similarity to the input
\* is the maximum over the catalog, and it is returned only if that maximum
\* is strictly greater than 0.6; otherwise nothing is found.
C30_FuzzyStage ==
  probe.op = "fuzzy_search_food" =>
    LET x == Key(probe.food_name)
        best == MostSimilar(catalog, x)
    IN (ExactRows(catalog, x) = {} /\ TokenRows(catalog, x) = {}) =>
         IF best # {} /\ RLess(Threshold, Similarity(catalog, x, SetMin(best)))
         THEN probe.row = SetMin(best)
         ELSE probe.row = 0

\* two rows share the maximum, above the threshold: the first is returned
C30_Witness ==
  /\ probe.op = "fuzzy_search_food"
  /\ ExactRows(catalog, Key(probe.food_name)) = {}
  /\ TokenRows(catalog, Key(probe.food_name)) = {}
  /\ Cardinality(MostSimilar(catalog, Key(probe.food_name))) >= 2
  /\ probe.row # 0
  /\ probe.row = SetMin(MostSimilar(catalog, Key(probe.food_name)))

-----------------------------------------------------------------------------
(* Errors and the ledger                                                    *)

\* the log_meal request of thread t has committed its row and has not
\* answered yet
Appended(t) ==
  threads[t].op = "log_meal" /\ threads[t].pc \in {"remaining", "consumed"}

\* thread t answers in this step
Answers(t) == threads[t].pc # "done" /\ threads'[t].pc = "done"

\* C31: a log_meal that answers with an error status has added no food_logs
\* row, also when the failure happens after the commit of the row, while
\* the running totals and the message are computed; and a log_meal that has
\* added a row answers with success.
C31_ErrorMeansNoRow ==
  [][\A t \in Threads :
       (threads[t].op = "log_meal" /\ Answers(t)) =>
         /\ threads'[t].resp.status = "error" =>
              ~Appended(t) /\ ledger' = ledger
         /\ Appended(t) => threads'[t].resp.status = "success"]_vars

\* the same of the handler run alone with no statement raising
C31_ErrorMeansNoRowSequential ==
  [][LogMealStep =>
       /\ last'.resp.status = "error" => ledger' = ledger
       /\ ledger' # ledger => Succeeded(last')]_vars

-----------------------------------------------------------------------------
(* The guard's false positives                                              *)

\* a row of user_id and food_name logged less than the window before t
RecentRows(logs, user_id, food_name, t) ==
  {i \in 1..Len(logs) : /\ logs[i].user_id = user_id
                        /\ logs[i].food_name = food_name
                        /\ t - logs[i].logged_at < WindowMinutes}

\* C32: a log_meal is rejected as a duplicate only when food_logs holds a
\* row of the same user and the same food logged less than 5 minutes before
\* now: a row of another user, a row of another food and a row logged 5
\* minutes or more before now never make the guard reject.
C32_NoFalsePositives ==
  [][(LogMealStep /\ Failed(last', "Already logged in last 5 mins")) =>
       \A a \in {last'.args} :
         /\ RecentRows(ledger, a.user_id, a.food_name, now) # {}
         /\ \A k \in {fuzzy_search_food(catalog, a.food_name)} :
              k # 0 =>
                RecentRows(ledger, a.user_id, catalog[k].food_name, now) # {}]_vars

\* a request rejected because of the row logged in the same minute, which
\* was itself accepted with a row of the same user and food exactly 5
\* minutes old
C32_Witness ==
  /\ IsLogMeal(last) /\ Failed(last, "Already logged in last 5 mins")
  /\ Len(ledger) = 2
  /\ ledger[1].user_id = ledger[2].user_id
  /\ ledger[1].food_name = ledger[2].food_name
  /\ ledger[2].logged_at - ledger[1].logged_at = WindowMinutes
  /\ now = ledger[2].logged_at
  /\ last.args.user_id = ledger[2].user_id
  /\ last.args.food_name = ledger[2].food_name

-----------------------------------------------------------------------------
(* Isolation of users and days                                              *)

\* the day a log_meal or get_daily_status request works on
RequestDate(l) ==
  IF IsStatus(l) /\ l.args.date_obj # NoDate THEN l.args.date_obj
  ELSE date(now)

OtherUsersRows(logs, u) == SelectSeq(logs, LAMBDA l : l.user_id # u)
OtherSummaries(sums, u, d) == {r \in sums : r.user_id # u \/ r.date # d}

\* C33: a log_meal or a get_daily_status of user A for the day d leaves
\* every food_logs row and every daily_summaries row of the other users as
\* it was, and every daily_summaries row of A for a day other than d.
C33_UsersAndDaysIsolated ==
  [][(/\ IsLogMeal(last') \/ IsStatus(last')
      /\ <<last, ledger, summaries>>' # <<last, ledger, summaries>>) =>
       \A u \in {last'.args.user_id}, d \in {RequestDate(last')} :
         /\ OtherUsersRows(ledger', u) = OtherUsersRows(ledger, u)
         /\ OtherSummaries(summaries', u, d) = OtherSummaries(summaries, u, d)]_vars

\* a status of user 101 that has written the day's row from a row logged
\* that day, beside a row of 101 for another day, and a summary and a log
\* row of user 102
C33_Witness ==
  /\ IsStatus(last) /\ Succeeded(last) /\ last.args.user_id = 101
  /\ \E r \in summaries : r.user_id = 102 /\ r.date = last.resp.date
  /\ \E r \in summaries : r.user_id = 101 /\ r.date # last.resp.date
  /\ \E r \in summaries : /\ r.user_id = 101 /\ r.date = last.resp.date
                          /\ r.consumed_calories > 0
  /\ \E i \in 1..Len(ledger) : ledger[i].user_id = 102

-----------------------------------------------------------------------------
(* Monotone totals                                                          *)

\* the users and days of the requests
LedgerUsers == {101, 102}
LedgerDates == {date(StartTime), date(StartTime) + 1}

\* the consumed total of a user's day, folded from food_logs
ConsumedOf(logs, u, d) == SumInt(logs_of(logs, u, d), "calories")

\* C34: every food_logs row has calories >= 0 and one of the six meal
\* types; for every user and day the calories folded from food_logs never
\* decrease and the remaining calories, target - folded calories, never
\* increase, whatever the operation.
C34_ConsumedNeverDecreases ==
  [][/\ \A i \in 1..Len(ledger') :
          ledger'[i].calories >= 0 /\ ledger'[i].meal_type \in SlotSet
     /\ \A u \in LedgerUsers, d \in LedgerDates :
          /\ ConsumedOf(ledger', u, d) >= ConsumedOf(ledger, u, d)
          /\ user_rows(users, u) # {} =>
               get_remaining_calories(users', ledger', u, d)
                 <= get_remaining_calories(users, ledger, u, d)]_vars

\* the same of the stored daily_summaries rows
C34_StoredTotalsMonotone ==
  [][\A r \in summaries, q \in summaries' :
       q.id = r.id =>
         /\ q.consumed_calories >= r.consumed_calories
         /\ q.remaining_calories <= r.remaining_calories]_vars

\* a second row of one user's day has just been logged: both rows have
\* calories and the response reports their sum and what remains of the
\* target
C34_Witness ==
  /\ IsLogMeal(last) /\ Succeeded(last)
  /\ Len(ledger) = 2
  /\ ledger[1].user_id = ledger[2].user_id
  /\ date(ledger[1].logged_at) = date(ledger[2].logged_at)
  /\ ledger[1].calories > 0 /\ ledger[2].calories > 0
  /\ last.resp.consumed_total = ledger[1].calories + ledger[2].calories
  /\ last.resp.remaining < 1800 - ledger[1].calories

-----------------------------------------------------------------------------
(* The chat bot's profile capture and its gate                              *)

IsWebhook(l) == l.op = "webhook"

\* a message is handled in this step
WebhookStep == IsWebhook(last') /\ <<last, bot>>' # <<last, bot>>

StepOf(d, u) == IF u \in DOMAIN d THEN d[u].step ELSE Absent
DataOf(d, u) == IF u \in DOMAIN d THEN d[u] ELSE NewUserData
StateOf(d, u) == IF u \in DOMAIN d THEN d[u] ELSE NewUserState

\* the replies with which the bot enters the plan flow or the log flow, or
\* answers /status or /suggest
GateCommands == {t_plan, t_log, t_status, t_suggest}
GateReplies ==
  {"ask_goal", "ask_meal", "progress", "no_data", "suggestions",
   "error_getting_suggestions", "error"}
PassedGate(l) ==
  IsWebhook(l) /\ l.args.text \in GateCommands /\ l.resp.reply \in GateReplies

ProfileComplete(u) ==
  \A f \in {"name", "age", "weight", "height"} : DataOf(user_data, u)[f] # None

\* C35: when the bot lets a user enter the plan flow or the log flow, or
\* run /status or /suggest, the user's name, age, weight and height are all
\* stored and a register-user request has been sent for that user.
C35_ProfileGate ==
  PassedGate(last) =>
    /\ ProfileComplete(last.args.user_id)
    /\ <<"/register-user", last.args.user_id>> \in api_requests

\* the texts that are a valid answer at each capture step, and the values
\* stored for them
CaptureSteps == {"start_age", "start_weight", "start_height"}
ValidAnswers(step) == IF step = "start_age" THEN {t_20} ELSE {t_120}
StoredAnswer(step) == IF step = "start_age" THEN 20 ELSE <<120, 1>>
CaptureField(step) ==
  IF step = "start_age" THEN "age"
  ELSE IF step = "start_weight" THEN "weight" ELSE "height"
CaptureOrder ==
  {<<"start_name", "start_age">>, <<"start_age", "start_weight">>,
   <<"start_weight", "start_height">>}

RegisterCalls(l) ==
  {i \in 1..Len(l.resp.calls) : l.resp.calls[i].endpoint = "/register-user"}

\* C38: the capture steps run in the order start_name, start_age,
\* start_weight, start_height; an age, weight or height that is not a
\* number or is out of range stores nothing and leaves the step as it is; a
\* register-user request is sent only by the step that stores a valid
\* height after a name, an age and a weight in range, once, with those
\* four values.
C38_ProfileCapture ==
  [][WebhookStep =>
       \A u \in {last'.args.user_id}, text \in {last'.args.text} :
         \A s \in {StepOf(user_state, u)}, n \in {StepOf(user_state', u)} :
           /\ (n \in CaptureSteps \cup {"start_name"} /\ n # s) =>
                \/ n = "start_name" /\ text = t_start
                \/ <<s, n>> \in CaptureOrder
           /\ (s \in CaptureSteps /\ text # t_start) =>
                IF text \in ValidAnswers(s)
                THEN /\ DataOf(user_data', u)
                          = [DataOf(user_data, u) EXCEPT
                               ![CaptureField(s)] = Some(StoredAnswer(s))]
                     /\ n # s
                ELSE /\ DataOf(user_data', u) = DataOf(user_data, u)
                     /\ n = s
                     /\ last'.resp.calls = <<>>
           /\ IF s = "start_height" /\ text \in ValidAnswers(s)
              THEN /\ Len(last'.resp.calls) = 1
                   /\ RegisterCalls(last') = {1}
                   /\ n = Absent
                   /\ \E d \in {DataOf(user_data', u)} :
                        /\ last'.resp.calls[1].json
                             = [id |-> u, name |-> d.name, age |-> d.age,
                                weight |-> d.weight, height |-> d.height]
                        /\ d.name # None
                        /\ d.age = Some(20)
                        /\ d.weight = Some(<<120, 1>>)
                        /\ d.height = Some(<<120, 1>>)
              ELSE RegisterCalls(last') = {}]_vars

\* a capture that has just completed after a rejected answer: the profile
\* is stored and the register-user request carries it
C38_Witness ==
  /\ IsWebhook(last) /\ RegisterCalls(last) = {1}
  /\ last.resp.reply = "profile_saved"
  /\ ProfileComplete(last.args.user_id)
  /\ user_data[last.args.user_id].name = Some(t_Bob)
  /\ StepOf(user_state, last.args.user_id) = Absent

-----------------------------------------------------------------------------
(* The chat bot's log flow                                                  *)

LogSteps == {"log_meal_type", "log_food", "log_quantity", "log_unit"}
LogOrder ==
  {<<"log_meal_type", "log_food">>, <<"log_food", "log_quantity">>,
   <<"log_quantity", "log_unit">>}

\* the commands that webhook tests before the steps of the log flow
EarlierCommands == {t_start, t_help, t_plan, t_log}

\* a number: what float() returns apart from nan and the infinities
IsNumber(q) == q # None /\ q[1][2] # 0

LogCalls(l) ==
  {i \in 1..Len(l.resp.calls) : l.resp.calls[i].endpoint = "/log-meal"}

\* the handlers of u that have sent a log-meal request and wait for its answer
AwaitingLog(u) ==
  {i \in 1..Len(inflight) :
     inflight[i].user_id = u /\ inflight[i].endpoint = "/log-meal"}

\* a handler that awaited the API sends its message and returns in this step
ResumeStep == last'.op = "webhook_resume" /\ <<last, bot>>' # <<last, bot>>

\* the step enters the log flow by /log and moves through it in order, and
\* each step stores the text it was sent
LogOrderOk(u, text, s, n) ==
  /\ (n \in LogSteps /\ n # s) =>
       \/ n = "log_meal_type" /\ text = t_log
       \/ <<s, n>> \in LogOrder
  /\ (s = "log_meal_type" /\ n = "log_food") =>
       StateOf(user_state', u).meal_type = Some(text)
  /\ (s = "log_food" /\ n = "log_quantity") =>
       StateOf(user_state', u).food_name = Some(text)

\* at log_quantity only a number moves the step on, and it is stored
LogQuantityOk(u, text, s, n) ==
  (s = "log_quantity" /\ text \notin EarlierCommands) =>
    IF IsNumber(float(text))
    THEN n = "log_unit" /\ StateOf(user_state', u).quantity = float(text)
    ELSE n = s /\ StateOf(user_state', u) = StateOf(user_state, u)

\* a log-meal request is sent by the step log_unit and by no other, one
\* request, with the values stored by the three steps before it
LogCallOk(u, text, s, n) ==
  IF s = "log_unit" /\ text \notin EarlierCommands
  THEN /\ Len(last'.resp.calls) = 1 /\ LogCalls(last') = {1}
       /\ \E d \in {StateOf(user_state, u)} :
            /\ last'.resp.calls[1].params
                 = [user_id |-> u, meal_type |-> d.meal_type,
                    food_name |-> d.food_name, quantity |-> d.quantity,
                    unit |-> text]
            /\ d.meal_type # None /\ d.food_name # None /\ d.quantity # None
  ELSE LogCalls(last') = {}

\* a flow sends its request once: none is sent while a handler of the same
\* user still waits for the answer to one
LogOnceOk(u) == LogCalls(last') # {} => AwaitingLog(u) = {}

\* after the answer to a log-meal request the step is None
LogResetOk ==
  last'.args.endpoint = "/log-meal" =>
    StepOf(user_state', last'.args.user_id) = Absent

\* C36: after /log the step advances log_meal_type, log_food, log_quantity,
\* log_unit; a quantity that is not a number keeps the step at log_quantity;
\* the log-meal request is sent once per completed flow with the values
\* collected in it, and the step is None after its answer, whatever the
\* answer is.
C36_LogFlow ==
  [][/\ WebhookStep =>
          \A u \in {last'.args.user_id}, text \in {last'.args.text} :
            \A s \in {StepOf(user_state, u)}, n \in {StepOf(user_state', u)} :
              /\ LogOrderOk(u, text, s, n)
              /\ LogQuantityOk(u, text, s, n)
              /\ LogCallOk(u, text, s, n)
              /\ LogOnceOk(u)
     /\ ResumeStep => LogResetOk]_vars

\* the parts of C36 taken alone: the order of the steps and the content of
\* the request; the quantity; one request per flow; the reset
C36_OrderAndRequest ==
  [][WebhookStep =>
       \A u \in {last'.args.user_id}, text \in {last'.args.text} :
         \A s \in {StepOf(user_state, u)}, n \in {StepOf(user_state', u)} :
           LogOrderOk(u, text, s, n) /\ LogCallOk(u, text, s, n)]_vars
C36_QuantityIsANumber ==
  [][WebhookStep =>
       \A u \in {last'.args.user_id}, text \in {last'.args.text} :
         \A s \in {StepOf(user_state, u)}, n \in {StepOf(user_state', u)} :
           LogQuantityOk(u, text, s, n)]_vars
C36_OneRequestPerFlow ==
  [][WebhookStep => LogOnceOk(last'.args.user_id)]_vars
C36_StepResetAfterAnswer == [][ResumeStep => LogResetOk]_vars
C36_RefusedQuantityKeepsStep ==
  [][WebhookStep =>
       \A u \in {last'.args.user_id}, text \in {last'.args.text} :
         (/\ StepOf(user_state, u) = "log_quantity"
          /\ text \notin EarlierCommands
          /\ float(text) = None)
           => StateOf(user_state', u) = StateOf(user_state, u)]_vars

-----------------------------------------------------------------------------
(* The chat bot's commands while a step is pending                          *)

FlowCommands == {t_help, t_plan, t_log, t_status, t_suggest}

\* the steps whose answer is stored or sent as it is written
AnswerSteps ==
  {"start_name", "plan_goal", "plan_diet", "plan_allergies", "log_meal_type",
   "log_food", "log_unit"}

\* the replies of each command
CommandReplies(text) ==
  IF text = t_help THEN {"help"}
  ELSE IF text = t_plan THEN {"ask_goal"}
  ELSE IF text = t_log THEN {"ask_meal"}
  ELSE IF text = t_status THEN {"progress", "no_data", "error"}
  ELSE {"suggestions", "error_getting_suggestions", "error"}

\* the answers stored for a user: the profile and the fields of the flows
AnswersOf(u) ==
  <<DataOf(user_data, u), [StateOf(user_state, u) EXCEPT !.step = Absent]>>

\* the message is handled as the command it is: the command's reply is
\* sent, no stored answer changes and no request carries the text as a value
HandledAsCommand(u, text) ==
  /\ last'.resp.reply \in CommandReplies(text)
  /\ AnswersOf(u)' = AnswersOf(u)
  /\ \A i \in 1..Len(last'.resp.calls) :
       last'.resp.calls[i].endpoint \notin {"/meal-plan", "/log-meal"}

\* C37: a command (/help, /plan, /log, /status, /suggest) received while a
\* step that stores its answer is pending is handled as that command and is
\* not stored or sent as the answer to the step.
C37_CommandsNotStored ==
  [][WebhookStep =>
       \A u \in {last'.args.user_id}, text \in {last'.args.text} :
         (text \in FlowCommands /\ StepOf(user_state, u) \in AnswerSteps)
           => HandledAsCommand(u, text)]_vars

\* the part of C37 that the order of the branches gives: /help and /plan
\* at the steps of the plan flow and of the log flow, and /log at the steps
\* of the log flow
C37_EarlierCommandsNotStored ==
  [][WebhookStep =>
       \A u \in {last'.args.user_id}, text \in {last'.args.text} :
         \A s \in {StepOf(user_state, u)} :
           (/\ s \in AnswerSteps \ {"start_name"}
            /\ \/ text \in {t_help, t_plan}
               \/ text = t_log /\ s \in LogSteps)
             => HandledAsCommand(u, text)]_vars

====
